---- MODULE Spec2Model ----
(***************************************************************************)
(* Model of the B+tree table engine of db_tutorial_rust (src/src/main.rs). *)
(*                                                                         *)
(* A page is its 4096-byte buffer.  All node accessors read and write the  *)
(* buffer at the offsets the layout constants give, so the leaf view and   *)
(* the internal view of one page share their bytes as in the program.      *)
(*                                                                         *)
(* Where a function of the program computes a value and then uses it       *)
(* several times, the function is given here in stages: each stage is an   *)
(* operator that takes the values computed so far as parameters and is the *)
(* rest of the function from that point on.  The stages of a function are  *)
(* defined last stage first, ahead of the function itself.                 *)
(***************************************************************************)
EXTENDS Integers, Sequences, FiniteSets, Bags, TLC

(***************************************************************************)
(* Layout constants (main.rs 817-872); usize and pointers are 8 bytes.     *)
(***************************************************************************)
ID_SIZE == 4
USERNAME_SIZE == 32
EMAIL_SIZE == 255
ID_OFFSET == 0
USERNAME_OFFSET == ID_OFFSET + ID_SIZE
EMAIL_OFFSET == USERNAME_OFFSET + USERNAME_SIZE
ROW_SIZE == ID_SIZE + USERNAME_SIZE + EMAIL_SIZE
PAGE_SIZE == 4096
TABLE_MAX_PAGES == 100

USIZE_SIZE == 8
NODE_TYPE_SIZE == 1
NODE_TYPE_OFFSET == 0
IS_ROOT_SIZE == 1
IS_ROOT_OFFSET == NODE_TYPE_SIZE
PARENT_POINTER_SIZE == USIZE_SIZE
PARENT_POINTER_OFFSET == IS_ROOT_SIZE + IS_ROOT_OFFSET
COMMON_NODE_HEADER_SIZE == NODE_TYPE_SIZE + IS_ROOT_SIZE + PARENT_POINTER_SIZE

LEAF_NODE_NUM_CELLS_SIZE == USIZE_SIZE
LEAF_NODE_NUM_CELLS_OFFSET == COMMON_NODE_HEADER_SIZE
LEAF_NODE_NEXT_LEAF_SIZE == USIZE_SIZE
LEAF_NODE_NEXT_LEAF_OFFSET == LEAF_NODE_NUM_CELLS_OFFSET + LEAF_NODE_NUM_CELLS_SIZE
LEAF_NODE_HEADER_SIZE ==
    COMMON_NODE_HEADER_SIZE + LEAF_NODE_NUM_CELLS_SIZE + LEAF_NODE_NEXT_LEAF_SIZE

LEAF_NODE_KEY_SIZE == 4
LEAF_NODE_VALUE_SIZE == ROW_SIZE
LEAF_NODE_CELL_SIZE == LEAF_NODE_KEY_SIZE + LEAF_NODE_VALUE_SIZE
LEAF_NODE_SPACE_FOR_CELLS == PAGE_SIZE - LEAF_NODE_HEADER_SIZE
LEAF_NODE_MAX_CELLS == LEAF_NODE_SPACE_FOR_CELLS \div LEAF_NODE_CELL_SIZE
LEAF_NODE_RIGHT_SPLIT_COUNT == (LEAF_NODE_MAX_CELLS + 1) \div 2
LEAF_NODE_LEFT_SPLIT_COUNT == (LEAF_NODE_MAX_CELLS + 1) - LEAF_NODE_RIGHT_SPLIT_COUNT

INTERNAL_NODE_NUM_KEYS_SIZE == USIZE_SIZE
INTERNAL_NODE_NUM_KEYS_OFFSET == COMMON_NODE_HEADER_SIZE
INTERNAL_NODE_RIGHT_CHILD_SIZE == USIZE_SIZE
INTERNAL_NODE_RIGHT_CHILD_OFFSET ==
    INTERNAL_NODE_NUM_KEYS_OFFSET + INTERNAL_NODE_NUM_KEYS_SIZE
INTERNAL_NODE_HEADER_SIZE ==
    COMMON_NODE_HEADER_SIZE + INTERNAL_NODE_NUM_KEYS_SIZE + INTERNAL_NODE_RIGHT_CHILD_SIZE
INTERNAL_NODE_KEY_SIZE == 4
INTERNAL_NODE_CHILD_SIZE == USIZE_SIZE
INTERNAL_NODE_CELL_SIZE == INTERNAL_NODE_KEY_SIZE + INTERNAL_NODE_CHILD_SIZE
INTERNAL_NODE_MAX_CELLS == 3

NODE_INTERNAL == 0
NODE_LEAF == 1

(***************************************************************************)
(* Raw memory: the page buffer and its reads and writes.                   *)
(*                                                                         *)
(* The buffer's bytes are kept by the regions the layout divides them      *)
(* into: the five header fields, then for each of the LEAF_NODE_MAX_CELLS  *)
(* leaf cells its key, id, username and email bytes, then the tail of the  *)
(* page.  A region of 1, 4 or 8 bytes is kept as the unsigned little-      *)
(* endian integer its bytes encode, a longer region as the sequence of its *)
(* bytes up to the last non-zero one.  This changes no byte: Rd gives the  *)
(* byte at any offset and WrByte replaces the byte at any offset, and      *)
(* every operation below is defined on offsets and byte ranges of the      *)
(* whole buffer, whatever regions they cross.  An operation that covers    *)
(* exactly one region takes the region as a whole, with the same result as *)
(* byte by byte.                                                           *)
(***************************************************************************)
Pow256(i) == IF i = 0 THEN 1 ELSE IF i = 1 THEN 256 ELSE IF i = 2 THEN 65536
             ELSE 16777216

\* The ids the parser accepts are at most Huge (i32::MAX).  A 4-byte or
\* 8-byte integer above it (possible only for bytes that were written as
\* text) reads as Huge: it compares >= every id and > every page number,
\* as the stored value does.
Huge == 127 * 16777216 + 16777215

\* Byte i of the little-endian encoding of v.
ByteOf(v, i) == IF i > 3 THEN 0 ELSE (v \div Pow256(i)) % 256

\* v with byte i of its encoding replaced by b.
SetByteOf(v, i, b) ==
    IF i > 3 THEN (IF b = 0 THEN v ELSE Huge)
    ELSE v - ByteOf(v, i) * Pow256(i) + b * Pow256(i)

\* The largest element of the set nz of indices, 0 when it is empty.
LastOf(nz) == IF nz = {} THEN 0 ELSE CHOOSE i \in nz : \A x \in nz : x <= i

\* s without its trailing zero bytes.
Trim(s) ==
    IF Len(s) = 0 \/ s[Len(s)] # 0 THEN s
    ELSE SubSeq(s, 1, LastOf({i \in 1..Len(s) : s[i] # 0}))

TAIL_OFFSET == LEAF_NODE_HEADER_SIZE + LEAF_NODE_MAX_CELLS * LEAF_NODE_CELL_SIZE

EmptyCell == [key |-> 0, id |-> 0, username |-> << >>, email |-> << >>]

\* The zeroed buffer of Page::new.
PageNew ==
    [node_type |-> 0, is_root |-> 0, parent |-> 0, num |-> 0, link |-> 0,
     cells |-> [c \in 0..(LEAF_NODE_MAX_CELLS - 1) |-> EmptyCell], tail |-> << >>]

\* The region of a header offset o: its name, its first offset, its size.
\* (cell is the leaf cell of a cell's region, and -1 otherwise.)
HeaderRegion(o) ==
    IF o < IS_ROOT_OFFSET
    THEN [name |-> "node_type", cell |-> -1, start |-> NODE_TYPE_OFFSET,
          size |-> NODE_TYPE_SIZE]
    ELSE IF o < PARENT_POINTER_OFFSET
    THEN [name |-> "is_root", cell |-> -1, start |-> IS_ROOT_OFFSET, size |-> IS_ROOT_SIZE]
    ELSE IF o < LEAF_NODE_NUM_CELLS_OFFSET
    THEN [name |-> "parent", cell |-> -1, start |-> PARENT_POINTER_OFFSET,
          size |-> PARENT_POINTER_SIZE]
    ELSE IF o < LEAF_NODE_NEXT_LEAF_OFFSET
    THEN [name |-> "num", cell |-> -1, start |-> LEAF_NODE_NUM_CELLS_OFFSET,
          size |-> LEAF_NODE_NUM_CELLS_SIZE]
    ELSE [name |-> "link", cell |-> -1, start |-> LEAF_NODE_NEXT_LEAF_OFFSET,
          size |-> LEAF_NODE_NEXT_LEAF_SIZE]

\* The region of the byte at r within leaf cell c, the cell starting at base.
CellRegion(c, base, r) ==
    IF r < LEAF_NODE_KEY_SIZE
    THEN [name |-> "key", cell |-> c, start |-> base, size |-> LEAF_NODE_KEY_SIZE]
    ELSE IF r < LEAF_NODE_KEY_SIZE + USERNAME_OFFSET
    THEN [name |-> "id", cell |-> c, start |-> base + LEAF_NODE_KEY_SIZE, size |-> ID_SIZE]
    ELSE IF r < LEAF_NODE_KEY_SIZE + EMAIL_OFFSET
    THEN [name |-> "username", cell |-> c,
          start |-> base + LEAF_NODE_KEY_SIZE + USERNAME_OFFSET, size |-> USERNAME_SIZE]
    ELSE [name |-> "email", cell |-> c,
          start |-> base + LEAF_NODE_KEY_SIZE + EMAIL_OFFSET, size |-> EMAIL_SIZE]

\* The region of offset o.
RegionOf(o) ==
    IF o < LEAF_NODE_HEADER_SIZE THEN HeaderRegion(o)
    ELSE IF o >= TAIL_OFFSET
    THEN [name |-> "tail", cell |-> -1, start |-> TAIL_OFFSET, size |-> PAGE_SIZE - TAIL_OFFSET]
    ELSE CellRegion((o - LEAF_NODE_HEADER_SIZE) \div LEAF_NODE_CELL_SIZE,
                    o - ((o - LEAF_NODE_HEADER_SIZE) % LEAF_NODE_CELL_SIZE),
                    (o - LEAF_NODE_HEADER_SIZE) % LEAF_NODE_CELL_SIZE)

\* The regions of all offsets of a page, and the region of offset o.
Regions == [o \in 0..(PAGE_SIZE - 1) |-> RegionOf(o)]
Region(o) == Regions[o]

\* A region of at most USIZE_SIZE bytes is kept as an integer.
IsInt(g) == g.size <= USIZE_SIZE

\* The contents of region g of buf, and buf with them replaced by v.
Get(buf, g) == IF g.cell < 0 THEN buf[g.name] ELSE buf.cells[g.cell][g.name]
Put(buf, g, v) ==
    IF g.cell < 0 THEN [buf EXCEPT ![g.name] = v]
    ELSE [buf EXCEPT !.cells[g.cell][g.name] = v]

\* Byte i of a region with contents v.
ByteAt(g, v, i) == IF IsInt(g) THEN ByteOf(v, i) ELSE IF i < Len(v) THEN v[i + 1] ELSE 0

\* The contents v of a region with byte i replaced by b.
WithByte(g, v, i, b) ==
    IF IsInt(g) THEN SetByteOf(v, i, b)
    ELSE IF i < Len(v) THEN Trim([v EXCEPT ![i + 1] = b])
    ELSE IF b = 0 THEN v
    ELSE [j \in 1..(i + 1) |-> IF j <= Len(v) THEN v[j] ELSE IF j = i + 1 THEN b ELSE 0]

\* buf[o] of the byte array, o in region g.
RdAt(buf, g, o) == ByteAt(g, Get(buf, g), o - g.start)
Rd(buf, o) == RdAt(buf, Region(o), o)

\* buf[o] = b, o in region g.
WrByteAt(buf, g, o, b) == Put(buf, g, WithByte(g, Get(buf, g), o - g.start, b))
WrByte(buf, o, b) == WrByteAt(buf, Region(o), o, b)

\* Whether the n bytes at off are exactly region g.
Whole(g, off, n) == g.start = off /\ g.size = n

\* The n bytes at off.
Bytes(buf, off, n) == [i \in 1..n |-> Rd(buf, off + i - 1)]

\* The unsigned integer that the bytes b encode, little-endian.
FromLE(b) ==
    IF \E i \in 5..Len(b) : b[i] # 0 THEN Huge
    ELSE IF Len(b) >= 4 /\ b[4] >= 128 THEN Huge
    ELSE b[1] + (IF Len(b) > 1 THEN 256 * b[2] ELSE 0)
              + (IF Len(b) > 2 THEN 65536 * b[3] ELSE 0)
              + (IF Len(b) > 3 THEN 16777216 * b[4] ELSE 0)

\* Little-endian read of an n-byte unsigned integer at off (in region g).
ReadLEAt(buf, g, off, n) ==
    IF IsInt(g) /\ Whole(g, off, n) THEN Get(buf, g) ELSE FromLE(Bytes(buf, off, n))
ReadLE(buf, off, n) == ReadLEAt(buf, Region(off), off, n)

\* Write the bytes s[i..Len(s)] at off+i-1 onwards, one by one.
RECURSIVE WriteLoop(_, _, _, _)
WriteLoop(buf, off, s, i) ==
    IF i > Len(s) THEN buf ELSE WriteLoop(WrByte(buf, off + i - 1, s[i]), off, s, i + 1)

\* The contents v of a region with the bytes s written at its start.
WithPrefix(v, s) == Trim(s \o SubSeq(v, Len(s) + 1, Len(v)))

\* Write the bytes of sequence s at off..off+Len(s)-1 (off in region g).
WriteBytesAt(buf, g, off, s) ==
    IF Len(s) = 0 THEN buf
    ELSE IF ~IsInt(g) /\ g.start = off /\ Len(s) <= g.size
    THEN Put(buf, g, WithPrefix(Get(buf, g), s))
    ELSE WriteLoop(buf, off, s, 1)
WriteBytes(buf, off, s) == WriteBytesAt(buf, Region(off), off, s)

\* Write n zero bytes at off (in region g).
WriteZeroAt(buf, g, off, n) ==
    IF Whole(g, off, n) THEN Put(buf, g, IF IsInt(g) THEN 0 ELSE << >>)
    ELSE WriteLoop(buf, off, [i \in 1..n |-> 0], 1)
WriteZero(buf, off, n) == WriteZeroAt(buf, Region(off), off, n)

\* Little-endian write of the n-byte unsigned integer v at off (in region g).
WriteLEAt(buf, g, off, n, v) ==
    IF IsInt(g) /\ Whole(g, off, n) THEN Put(buf, g, v)
    ELSE WriteLoop(buf, off, [i \in 1..n |-> ByteOf(v, i - 1)], 1)
WriteLE(buf, off, n, v) == WriteLEAt(buf, Region(off), off, n, v)

\* std::ptr::copy of n bytes from src at srcoff (in region gs) to dst at
\* dstoff (in region gd); the source is read whole before the destination
\* is written.
CopyBytesAt(dst, dstoff, gd, src, srcoff, gs, n) ==
    IF /\ n = LEAF_NODE_CELL_SIZE
       /\ gs.name = "key" /\ gs.start = srcoff
       /\ gd.name = "key" /\ gd.start = dstoff
    THEN [dst EXCEPT !.cells[gd.cell] = src.cells[gs.cell]]
    ELSE WriteLoop(dst, dstoff, Bytes(src, srcoff, n), 1)
CopyBytes(dst, dstoff, src, srcoff, n) ==
    CopyBytesAt(dst, dstoff, Region(dstoff), src, srcoff, Region(srcoff), n)

(***************************************************************************)
(* Page: typed accessors over the buffer (impl Page, main.rs 64-344).      *)
(***************************************************************************)
leaf_node_num_cells(buf) == ReadLE(buf, LEAF_NODE_NUM_CELLS_OFFSET, LEAF_NODE_NUM_CELLS_SIZE)
set_leaf_node_num_cells(buf, n) ==
    WriteLE(buf, LEAF_NODE_NUM_CELLS_OFFSET, LEAF_NODE_NUM_CELLS_SIZE, n)

\* Offset of leaf cell cell_num, of its key and of its value.
leaf_node_cell(cell_num) == LEAF_NODE_HEADER_SIZE + cell_num * LEAF_NODE_CELL_SIZE
leaf_node_key(buf, cell_num) == ReadLE(buf, leaf_node_cell(cell_num), LEAF_NODE_KEY_SIZE)
set_leaf_node_key(buf, cell_num, key) ==
    WriteLE(buf, leaf_node_cell(cell_num), LEAF_NODE_KEY_SIZE, key)
leaf_node_value(cell_num) ==
    LEAF_NODE_HEADER_SIZE + cell_num * LEAF_NODE_CELL_SIZE + LEAF_NODE_KEY_SIZE

get_node_type(buf) == ReadLE(buf, NODE_TYPE_OFFSET, NODE_TYPE_SIZE)
set_node_type(buf, node_type) == WriteLE(buf, NODE_TYPE_OFFSET, NODE_TYPE_SIZE, node_type)
is_leaf_node(buf) == get_node_type(buf) = NODE_LEAF

is_node_root(buf) == ReadLE(buf, IS_ROOT_OFFSET, IS_ROOT_SIZE) # 0
set_node_root(buf, is_root) ==
    WriteLE(buf, IS_ROOT_OFFSET, IS_ROOT_SIZE, IF is_root THEN 1 ELSE 0)

get_leaf_node_next_leaf(buf) ==
    ReadLE(buf, LEAF_NODE_NEXT_LEAF_OFFSET, LEAF_NODE_NEXT_LEAF_SIZE)
set_leaf_node_next_leaf(buf, next_leaf) ==
    WriteLE(buf, LEAF_NODE_NEXT_LEAF_OFFSET, LEAF_NODE_NEXT_LEAF_SIZE, next_leaf)

get_node_parent(buf) == ReadLE(buf, PARENT_POINTER_OFFSET, PARENT_POINTER_SIZE)
set_node_parent(buf, parent_page_num) ==
    WriteLE(buf, PARENT_POINTER_OFFSET, PARENT_POINTER_SIZE, parent_page_num)

initialize_leaf_node(buf) ==
    set_leaf_node_num_cells(
        set_leaf_node_next_leaf(set_node_root(set_node_type(buf, NODE_LEAF), FALSE), 0), 0)

get_internal_node_num_keys(buf) ==
    ReadLE(buf, INTERNAL_NODE_NUM_KEYS_OFFSET, INTERNAL_NODE_NUM_KEYS_SIZE)
set_internal_node_num_keys(buf, num_keys) ==
    WriteLE(buf, INTERNAL_NODE_NUM_KEYS_OFFSET, INTERNAL_NODE_NUM_KEYS_SIZE, num_keys)
increase_internal_node_num_keys(buf, incr) ==
    set_internal_node_num_keys(buf, get_internal_node_num_keys(buf) + incr)

initialize_internal_node(buf) ==
    set_internal_node_num_keys(set_node_root(set_node_type(buf, NODE_INTERNAL), FALSE), 0)

get_internal_node_right_child(buf) ==
    ReadLE(buf, INTERNAL_NODE_RIGHT_CHILD_OFFSET, INTERNAL_NODE_RIGHT_CHILD_SIZE)
set_internal_node_right_child(buf, internal_node_right_child) ==
    WriteLE(buf, INTERNAL_NODE_RIGHT_CHILD_OFFSET, INTERNAL_NODE_RIGHT_CHILD_SIZE,
            internal_node_right_child)

\* Offset of internal cell cell_num: the child page number, then the key.
internal_node_cell(cell_num) == INTERNAL_NODE_HEADER_SIZE + cell_num * INTERNAL_NODE_CELL_SIZE
get_internal_node_cell(buf, cell_num) ==
    ReadLE(buf, internal_node_cell(cell_num), INTERNAL_NODE_CHILD_SIZE)
set_internal_node_cell(buf, cell_num, page_num) ==
    WriteLE(buf, internal_node_cell(cell_num), INTERNAL_NODE_CHILD_SIZE, page_num)
get_internal_node_key(buf, cell_num) ==
    ReadLE(buf, internal_node_cell(cell_num) + INTERNAL_NODE_CHILD_SIZE, INTERNAL_NODE_KEY_SIZE)
set_internal_node_key(buf, key_num, key_val) ==
    WriteLE(buf, internal_node_cell(key_num) + INTERNAL_NODE_CHILD_SIZE,
            INTERNAL_NODE_KEY_SIZE, key_val)

\* set_internal_node_child and get_internal_node_child exit the process
\* when child_num > num_keys; their callers below never pass such a
\* child_num (it is at most num_keys by construction of the call sites).
set_internal_node_child(buf, child_num, child_page_num) ==
    IF child_num = get_internal_node_num_keys(buf)
    THEN set_internal_node_right_child(buf, child_page_num)
    ELSE set_internal_node_cell(buf, child_num, child_page_num)
get_internal_node_child(buf, child_num) ==
    IF child_num = get_internal_node_num_keys(buf)
    THEN get_internal_node_right_child(buf)
    ELSE get_internal_node_cell(buf, child_num)

\* The key of the last cell.  On a node with no cell the index num - 1
\* wraps; the callers below reach it only with at least one cell.
get_node_max_key(buf) ==
    IF get_node_type(buf) = NODE_INTERNAL
    THEN get_internal_node_key(buf, get_internal_node_num_keys(buf) - 1)
    ELSE leaf_node_key(buf, leaf_node_num_cells(buf) - 1)

\* Binary search for the index of the child that should contain key.
RECURSIVE FindChildLoop(_, _, _, _)
FindChildStep(buf, key, min_cell, max_cell, cell_num) ==
    IF get_internal_node_key(buf, cell_num) >= key
    THEN FindChildLoop(buf, key, min_cell, cell_num)
    ELSE FindChildLoop(buf, key, cell_num + 1, max_cell)
FindChildLoop(buf, key, min_cell, max_cell) ==
    IF min_cell < max_cell
    THEN FindChildStep(buf, key, min_cell, max_cell, (max_cell - min_cell) \div 2 + min_cell)
    ELSE max_cell
internal_node_find_child(buf, key) ==
    FindChildLoop(buf, key, 0, get_internal_node_num_keys(buf))

update_internal_node_key(buf, old_key, new_key) ==
    set_internal_node_key(buf, internal_node_find_child(buf, old_key), new_key)

\* Binary search of a leaf: the index of key, or where it would go.
RECURSIVE LeafFindLoop(_, _, _, _)
LeafFindStep(buf, key, min_index, one_past_max_index, index, key_at_index) ==
    IF key_at_index = key THEN index
    ELSE IF key_at_index > key
         THEN LeafFindLoop(buf, key, min_index, index)
         ELSE LeafFindLoop(buf, key, index + 1, one_past_max_index)
LeafFindMid(buf, key, min_index, one_past_max_index, index) ==
    LeafFindStep(buf, key, min_index, one_past_max_index, index, leaf_node_key(buf, index))
LeafFindLoop(buf, key, min_index, one_past_max_index) ==
    IF one_past_max_index # min_index
    THEN LeafFindMid(buf, key, min_index, one_past_max_index,
                     (one_past_max_index + min_index) \div 2)
    ELSE min_index
leaf_node_find(buf, key) == LeafFindLoop(buf, key, 0, leaf_node_num_cells(buf))

(***************************************************************************)
(* State.                                                                  *)
(*   file         the database file: the sequence of its pages             *)
(*   running      a process has the table open                             *)
(*   pages        Pager.pages: the resident slots (page number -> buffer)  *)
(*   num_pages    Pager.num_pages                                          *)
(*   root_page_num  Table.root_page_num                                    *)
(*   last         what the last statement did: the statement (op, whether  *)
(*                a row with the key of an executed insert was stored      *)
(*                before it, the shape of the command), its result, and    *)
(*                the rows a select printed                                *)
(*   exit_code    the code passed to process::exit by the last process     *)
(*   okrows       rows whose insert returned EXECUTE_SUCCESS (with         *)
(*                multiplicity), for the contents now in memory            *)
(*   saved        okrows as of the file's contents                         *)
(*   at_close     the rows a select would have printed at the last .exit   *)
(***************************************************************************)
VARIABLES file, running, pages, num_pages, root_page_num, last, exit_code, okrows, saved,
          at_close

vars == <<file, running, pages, num_pages, root_page_num, last, exit_code, okrows, saved,
          at_close>>

(***************************************************************************)
(* Pager (main.rs 346-462).  A pager value tb is the record of the fields  *)
(* an operation can change, pages and num_pages, and fatal: "" while the   *)
(* process lives, otherwise why it died.                                   *)
(***************************************************************************)
Fatal(tb, why) == [tb EXCEPT !.fatal = IF tb.fatal = "" THEN why ELSE tb.fatal]

\* Pager::new: num_pages from the file length.  The model's file is a
\* sequence of whole pages, with TornPage after them when the file's length
\* is no multiple of PAGE_SIZE.
TornPage == [torn |-> TRUE]
FileTorn == Len(file) > 0 /\ file[Len(file)] = TornPage
num_pages_file == Len(file)

\* load_page: a zeroed page, filled from the file when page_num <= num_pages.
\* A read at or past the end of the file reads no byte.
load_page(tb, page_num) ==
    [tb EXCEPT !.pages = (page_num :> (IF page_num <= tb.num_pages /\ page_num < Len(file)
                                       THEN file[page_num + 1]
                                       ELSE PageNew)) @@ tb.pages]

\* The slot vector has TABLE_MAX_PAGES entries; the bound check lets
\* page_num = TABLE_MAX_PAGES through, and ptr.offset(page_num) is then the
\* memory past the vector.  What the build does with it is tb.past: the
\* process crashes on the access, or the memory reads as an empty slot and
\* the page is installed in it.
PastOutcomes == {"crash", "installed"}
slot_past(tb, page_num) ==
    IF tb.past = "crash" THEN Fatal(tb, "slot read past the vector")
    ELSE load_page(tb, page_num)

\* (get_page_view_reloading: a faulty one that loads the page at every
\* request.)
get_page_view_reloading(tb, page_num) ==
    IF tb.fatal # "" THEN tb
    ELSE IF page_num > TABLE_MAX_PAGES THEN Fatal(tb, "panic: page number out of bounds")
    ELSE IF page_num = TABLE_MAX_PAGES THEN slot_past(tb, page_num)
    ELSE load_page(tb, page_num)
get_page_view(tb, page_num) ==
    IF tb.fatal # "" THEN tb
    ELSE IF page_num > TABLE_MAX_PAGES THEN Fatal(tb, "panic: page number out of bounds")
    ELSE IF page_num \in DOMAIN tb.pages THEN tb
    ELSE IF page_num = TABLE_MAX_PAGES THEN slot_past(tb, page_num)
    ELSE load_page(tb, page_num)

get_page_loaded(tb, t1, page_num) ==
    IF t1.fatal # "" THEN t1
    ELSE [t1 EXCEPT !.num_pages = IF page_num >= tb.num_pages THEN tb.num_pages + 1
                                  ELSE tb.num_pages]
get_page(tb, page_num) ==
    IF tb.fatal # "" THEN tb
    ELSE IF page_num > TABLE_MAX_PAGES THEN Fatal(tb, "panic: page number out of bounds")
    ELSE IF page_num \in DOMAIN tb.pages THEN tb
    ELSE get_page_loaded(tb,
                         IF page_num = TABLE_MAX_PAGES THEN slot_past(tb, page_num)
                         ELSE load_page(tb, page_num),
                         page_num)

get_unused_page_num(tb) == tb.num_pages

\* The buffer of a resident page, and the pager with that buffer replaced.
Buf(tb, page_num) == tb.pages[page_num]
SetBuf(tb, page_num, buf) == [tb EXCEPT !.pages[page_num] = buf]

\* get_leftmost_leaf_page_num: descend child 0 down to a leaf.  A page met
\* twice means the recursion never returns: the stack overflows.
RECURSIVE LeftmostLeaf(_, _, _)
LeftmostLeafIn(v, page_num, visited) ==
    IF v.fatal # "" THEN [tb |-> v, page_num |-> page_num]
    ELSE IF is_leaf_node(Buf(v, page_num)) THEN [tb |-> v, page_num |-> page_num]
    ELSE LeftmostLeaf(v, get_internal_node_child(Buf(v, page_num), 0),
                      visited \cup {page_num})
LeftmostLeaf(tb, page_num, visited) ==
    IF page_num \in visited
    THEN [tb |-> Fatal(tb, "stack overflow"), page_num |-> page_num]
    ELSE LeftmostLeafIn(get_page_view(tb, page_num), page_num, visited)
get_leftmost_leaf_page_num(tb, page_num) == LeftmostLeaf(tb, page_num, {})

(***************************************************************************)
(* Table::find (main.rs 481-525).                                          *)
(***************************************************************************)
\* internal_node_find's choice of the page to descend into.
\* (internal_node_find_at_up: a faulty one that goes to the node's parent
\* where it is to go to the right child; internal_node_find_at_cell: a
\* faulty one that takes the child from the cell at cell_index also when
\* cell_index is num_keys.)
internal_node_find_at_cell(buf, key, cell_index) ==
    IF get_internal_node_key(buf, cell_index) >= key
    THEN get_internal_node_cell(buf, cell_index)
    ELSE get_internal_node_right_child(buf)
internal_node_find_at_up(buf, key, cell_index) ==
    IF get_internal_node_key(buf, cell_index) >= key
    THEN get_internal_node_child(buf, cell_index)
    ELSE get_node_parent(buf)
internal_node_find_at(buf, key, cell_index) ==
    IF get_internal_node_key(buf, cell_index) >= key
    THEN get_internal_node_child(buf, cell_index)
    ELSE get_internal_node_right_child(buf)
internal_node_find_next(buf, key) ==
    internal_node_find_at(buf, key, internal_node_find_child(buf, key))

RECURSIVE find_by_page_num(_, _, _, _)
find_in_page(v, page_num, key, visited) ==
    IF v.fatal # "" THEN [tb |-> v, page_num |-> page_num, cell_num |-> 0]
    ELSE IF get_node_type(Buf(v, page_num)) = NODE_LEAF
         THEN [tb |-> v, page_num |-> page_num,
               cell_num |-> leaf_node_find(Buf(v, page_num), key)]
         ELSE find_by_page_num(v, internal_node_find_next(Buf(v, page_num), key),
                               key, visited \cup {page_num})
find_by_page_num(tb, page_num, key, visited) ==
    IF page_num \in visited
    THEN [tb |-> Fatal(tb, "stack overflow"), page_num |-> page_num, cell_num |-> 0]
    ELSE find_in_page(get_page_view(tb, page_num), page_num, key, visited)

find(tb, key) == find_by_page_num(tb, root_page_num, key, {})

(***************************************************************************)
(* Rows (main.rs 72-92, 789-797).  A row is [id, username, email] with the *)
(* strings as sequences of bytes.                                          *)
(***************************************************************************)
\* A faulty serialize_row: the last byte of each field is kept for a
\* terminating zero.
FirstBytes(s, n) == SubSeq(s, 1, IF Len(s) < n THEN Len(s) ELSE n)
serialize_row_terminated(buf, cell, source) ==
    WriteBytes(
        WriteZero(
            WriteBytes(
                WriteZero(WriteLE(buf, cell, ID_SIZE, source.id),
                          cell + USERNAME_OFFSET, USERNAME_SIZE),
                cell + USERNAME_OFFSET,
                FirstBytes(source.username, USERNAME_SIZE - 1)),
            cell + EMAIL_OFFSET, EMAIL_SIZE),
        cell + EMAIL_OFFSET, FirstBytes(source.email, EMAIL_SIZE - 1))

\* serialize_row at offset cell of buf: the id, then each field zeroed and
\* the string's len() bytes copied to its start.
serialize_row(buf, cell, source) ==
    WriteBytes(
        WriteZero(
            WriteBytes(
                WriteZero(WriteLE(buf, cell, ID_SIZE, source.id),
                          cell + USERNAME_OFFSET, USERNAME_SIZE),
                cell + USERNAME_OFFSET, source.username),
            cell + EMAIL_OFFSET, EMAIL_SIZE),
        cell + EMAIL_OFFSET, source.email)

\* read_end_idx of bytes: the index of the last non-zero byte, else 0.
read_end_idx(bytes) == LastOf({i \in 0..(Len(bytes) - 1) : bytes[i + 1] # 0})

\* The bytes 0..=read_end_idx of the size bytes at off (in region g).
UpToEnd(bytes) == SubSeq(bytes, 1, read_end_idx(bytes) + 1)
ReadStringAt(buf, g, off, size) ==
    IF ~IsInt(g) /\ Whole(g, off, size) /\ Len(Get(buf, g)) > 0
    THEN Get(buf, g)
    ELSE UpToEnd(Bytes(buf, off, size))
ReadString(buf, off, size) == ReadStringAt(buf, Region(off), off, size)

row_at(buf, cell) ==
    [id       |-> ReadLE(buf, cell, ID_SIZE),
     username |-> ReadString(buf, cell + USERNAME_OFFSET, USERNAME_SIZE),
     email    |-> ReadString(buf, cell + EMAIL_OFFSET, EMAIL_SIZE)]
row_mut_slot(buf, cell_num) == row_at(buf, leaf_node_value(cell_num))

(***************************************************************************)
(* Leaf split (main.rs 705-815).                                           *)
(***************************************************************************)
\* One step of copy_page_data's loop: cell index_within_node of dst_buf is
\* written from the row or from a cell of src.
copy_page_cell(i, index_within_node, src, dst_buf, key, value, value_cell_num) ==
    IF i = value_cell_num
    THEN serialize_row(set_leaf_node_key(dst_buf, index_within_node, key),
                       leaf_node_value(index_within_node), value)
    ELSE CopyBytes(dst_buf, leaf_node_cell(index_within_node), src,
                   leaf_node_cell(IF i > value_cell_num THEN i - 1 ELSE i),
                   LEAF_NODE_CELL_SIZE)

\* copy_page_data for i descending from i down to lo.  With same = TRUE the
\* source is the destination page itself, read as it is at each step.
RECURSIVE copy_page_data(_, _, _, _, _, _, _, _)
copy_page_data(i, lo, src_buf, dst_buf, same, key, value, value_cell_num) ==
    IF i < lo THEN dst_buf
    ELSE copy_page_data(i - 1, lo, src_buf,
             copy_page_cell(i, i % LEAF_NODE_LEFT_SPLIT_COUNT,
                            IF same THEN dst_buf ELSE src_buf,
                            dst_buf, key, value, value_cell_num),
             same, key, value, value_cell_num)

\* The loop of internal_node_insert that is to move the parent's cells
\* index..origin_num_keys-1 one slot right: for i descending from i to lo,
\* copy INTERNAL_NODE_CELL_SIZE bytes from leaf_node_cell(i - 1) to
\* leaf_node_cell(i).
RECURSIVE InternalShiftLoop(_, _, _)
InternalShiftLoop(buf, i, lo) ==
    IF i < lo THEN buf
    ELSE InternalShiftLoop(
             CopyBytes(buf, leaf_node_cell(i), buf, leaf_node_cell(i - 1),
                       INTERNAL_NODE_CELL_SIZE),
             i - 1, lo)

\* internal_node_insert, last stage: the parent p gets the new pair.
internal_node_place(t4, p, parent_page_num, child_page_num, child_max_key, child_max_key_index, origin_num_keys, right_child_page_num, right_child_max_key) ==
    SetBuf(t4, parent_page_num,
        IF child_max_key > right_child_max_key
        THEN set_internal_node_key(
                 set_internal_node_child(
                     set_internal_node_right_child(p, child_page_num),
                     origin_num_keys, right_child_page_num),
                 origin_num_keys, right_child_max_key)
        ELSE set_internal_node_key(
                 set_internal_node_child(
                     InternalShiftLoop(p, origin_num_keys, child_max_key_index + 1),
                     child_max_key_index, child_page_num),
                 child_max_key_index, child_max_key))

\* ... the stage that reads the right child's max key.
internal_node_right(t4, parent_page_num, child_page_num, child_max_key, child_max_key_index, origin_num_keys, right_child_page_num) ==
    IF t4.fatal # "" THEN t4
    ELSE internal_node_place(t4, Buf(t4, parent_page_num), parent_page_num,
                             child_page_num, child_max_key, child_max_key_index,
                             origin_num_keys, right_child_page_num,
                             get_node_max_key(Buf(t4, right_child_page_num)))

\* ... the stage that checks the parent for room and counts the new key
\* (internal_node_room_ignored: a faulty one that returns from a full parent
\* and leaves the new node out of it).
internal_node_room_ignored(t2, parent, parent_page_num, child_page_num, child_max_key, child_max_key_index, origin_num_keys, right_child_page_num) ==
    IF origin_num_keys >= INTERNAL_NODE_MAX_CELLS
    THEN t2
    ELSE internal_node_right(
             get_page_view(SetBuf(t2, parent_page_num,
                                  increase_internal_node_num_keys(parent, 1)),
                           right_child_page_num),
             parent_page_num, child_page_num, child_max_key, child_max_key_index,
             origin_num_keys, right_child_page_num)
internal_node_room(t2, parent, parent_page_num, child_page_num, child_max_key, child_max_key_index, origin_num_keys, right_child_page_num) ==
    IF origin_num_keys >= INTERNAL_NODE_MAX_CELLS
    THEN Fatal(t2, "exit: need to implement splitting internal node")
    ELSE internal_node_right(
             get_page_view(SetBuf(t2, parent_page_num,
                                  increase_internal_node_num_keys(parent, 1)),
                           right_child_page_num),
             parent_page_num, child_page_num, child_max_key, child_max_key_index,
             origin_num_keys, right_child_page_num)

\* ... the stage that reads the parent.
internal_node_parent(t2, parent, parent_page_num, child_page_num, child_max_key) ==
    internal_node_room(t2, parent, parent_page_num, child_page_num, child_max_key,
                       internal_node_find_child(parent, child_max_key),
                       get_internal_node_num_keys(parent),
                       get_internal_node_right_child(parent))

\* ... the stage that has the child's max key.
internal_node_child(t1, parent_page_num, child_page_num, child_max_key) ==
    internal_node_parent(t1, Buf(t1, parent_page_num), parent_page_num, child_page_num,
                         child_max_key)

\* internal_node_insert: add the child/key pair of child to parent.  (The
\* parent is resident when this is called, so get_page of it is the pager
\* as it is.)
internal_node_view(t1, parent_page_num, child_page_num) ==
    internal_node_child(get_page(t1, parent_page_num), parent_page_num, child_page_num,
                        get_node_max_key(Buf(t1, child_page_num)))
internal_node_insert(tb, parent_page_num, child_page_num) ==
    internal_node_view(get_page_view(tb, child_page_num), parent_page_num, child_page_num)

\* create_new_node, last stage: both children get the root as parent.
new_node_right_parent(t4, right_child_page_num) ==
    SetBuf(t4, right_child_page_num,
           set_node_parent(Buf(t4, right_child_page_num), root_page_num))
new_node_parents(t2, left_child_page_num, right_child_page_num) ==
    new_node_right_parent(
        get_page(SetBuf(t2, left_child_page_num,
                        set_node_parent(Buf(t2, left_child_page_num), root_page_num)),
                 right_child_page_num),
        right_child_page_num)

\* ... the stage that turns the old root into an internal node in place.
new_node_root(t1, page_num, left_child_page_num, right_child_page_num, node_max_key) ==
    new_node_parents(
        SetBuf(t1, page_num,
            set_internal_node_right_child(
                set_internal_node_key(
                    set_internal_node_child(
                        set_internal_node_num_keys(
                            set_node_root(initialize_internal_node(Buf(t1, page_num)), TRUE),
                            1),
                        0, left_child_page_num),
                    0, node_max_key),
                right_child_page_num)),
        left_child_page_num, right_child_page_num)

\* A faulty new_node_copied: the root's key is the left child's first key.
new_node_copied_first(t1, page_num, left_child_page_num, right_child_page_num, left_child) ==
    new_node_root(SetBuf(t1, left_child_page_num, left_child), page_num,
                  left_child_page_num, right_child_page_num, leaf_node_key(left_child, 0))

\* ... the stage that copies the old root to the left child.
new_node_copied(t1, page_num, left_child_page_num, right_child_page_num, left_child) ==
    new_node_root(SetBuf(t1, left_child_page_num, left_child), page_num,
                  left_child_page_num, right_child_page_num, get_node_max_key(left_child))
\* A faulty new_node_left: the copy of the old root keeps its root flag.
new_node_left_rooted(t1, page_num, left_child_page_num, right_child_page_num) ==
    IF t1.fatal # "" THEN t1
    ELSE new_node_copied(t1, page_num, left_child_page_num, right_child_page_num,
                         Buf(t1, page_num))

new_node_left(t1, page_num, left_child_page_num, right_child_page_num) ==
    IF t1.fatal # "" THEN t1
    ELSE new_node_copied(t1, page_num, left_child_page_num, right_child_page_num,
                         set_node_root(Buf(t1, page_num), FALSE))

\* create_new_node: the old root (page page_num, just split) is copied to a
\* new left child and becomes an internal node in place.
\* (create_new_node_reusing: a faulty one that takes the page of the right
\* child for the left child.)
create_new_node_reusing(tb, page_num, right_child_page_num) ==
    new_node_left(get_page(tb, right_child_page_num), page_num,
                  right_child_page_num, right_child_page_num)
create_new_node(tb, page_num, right_child_page_num) ==
    new_node_left(get_page(tb, get_unused_page_num(tb)), page_num,
                  get_unused_page_num(tb), right_child_page_num)

\* leaf_node_split_and_insert, last stage: the parent's key for the old
\* node is updated and the new node is inserted into the parent.
split_link(t4, parent_page_num, new_page_num, old_max, new_max) ==
    IF t4.fatal # "" THEN t4
    ELSE internal_node_insert(
             SetBuf(t4, parent_page_num,
                    update_internal_node_key(Buf(t4, parent_page_num), old_max, new_max)),
             parent_page_num, new_page_num)
split_parent(t3, old_node, parent_page_num, new_page_num, old_max) ==
    split_link(get_page(t3, parent_page_num), parent_page_num, new_page_num, old_max,
               get_node_max_key(old_node))

\* ... the stage after both halves are written.
split_up(t3, old_node, page_num, is_root, new_page_num, old_max) ==
    IF is_root
    THEN create_new_node(t3, page_num, new_page_num)
    ELSE split_parent(t3, old_node, get_node_parent(old_node), new_page_num, old_max)

\* ... the stage that rewrites the old node in place as the left half
\* (split_left_short: a faulty one whose loop leaves out the top cell).
split_left_done(t2, old_node, page_num, is_root, new_page_num, old_max) ==
    split_up(SetBuf(t2, page_num, old_node), old_node, page_num, is_root, new_page_num,
             old_max)
split_left_short(t2, old1, page_num, cell_num, key, value, new_page_num, old_max) ==
    split_left_done(t2,
        set_leaf_node_next_leaf(
            set_leaf_node_num_cells(
                copy_page_data(LEAF_NODE_LEFT_SPLIT_COUNT - 2, 0, old1, old1, TRUE,
                               key, value, cell_num),
                LEAF_NODE_LEFT_SPLIT_COUNT),
            new_page_num),
        page_num, is_node_root(old1), new_page_num, old_max)
split_left(t2, old1, page_num, cell_num, key, value, new_page_num, old_max) ==
    split_left_done(t2,
        set_leaf_node_next_leaf(
            set_leaf_node_num_cells(
                copy_page_data(LEAF_NODE_LEFT_SPLIT_COUNT - 1, 0, old1, old1, TRUE,
                               key, value, cell_num),
                LEAF_NODE_LEFT_SPLIT_COUNT),
            new_page_num),
        page_num, is_node_root(old1), new_page_num, old_max)

\* ... the stage that fills the new right node (split_right_unlinked: a
\* faulty one that leaves the new node's next leaf as initialized).
split_right_unlinked(t1, old0, page_num, cell_num, key, value, new_page_num) ==
    IF t1.fatal # "" THEN t1
    ELSE split_left(
             SetBuf(t1, new_page_num,
                 set_leaf_node_num_cells(
                     copy_page_data(LEAF_NODE_MAX_CELLS, LEAF_NODE_LEFT_SPLIT_COUNT, old0,
                         set_node_parent(initialize_leaf_node(Buf(t1, new_page_num)),
                                         get_node_parent(old0)),
                         FALSE, key, value, cell_num),
                     LEAF_NODE_RIGHT_SPLIT_COUNT)),
             old0, page_num, cell_num, key, value, new_page_num, get_node_max_key(old0))
split_right(t1, old0, page_num, cell_num, key, value, new_page_num) ==
    IF t1.fatal # "" THEN t1
    ELSE split_left(
             SetBuf(t1, new_page_num,
                 set_leaf_node_num_cells(
                     copy_page_data(LEAF_NODE_MAX_CELLS, LEAF_NODE_LEFT_SPLIT_COUNT, old0,
                         set_leaf_node_next_leaf(
                             set_node_parent(initialize_leaf_node(Buf(t1, new_page_num)),
                                             get_node_parent(old0)),
                             get_leaf_node_next_leaf(old0)),
                         FALSE, key, value, cell_num),
                     LEAF_NODE_RIGHT_SPLIT_COUNT)),
             old0, page_num, cell_num, key, value, new_page_num, get_node_max_key(old0))

\* leaf_node_split_and_insert with the cursor at (page_num, cell_num).
leaf_node_split_and_insert(tb, page_num, cell_num, key, value) ==
    split_right(get_page(tb, get_unused_page_num(tb)), Buf(tb, page_num), page_num,
                cell_num, key, value, get_unused_page_num(tb))

(***************************************************************************)
(* Cursor::leaf_node_insert (main.rs 672-693).                             *)
(***************************************************************************)
\* The shift loop: for i descending from i to lo copy cell i-1 to cell i.
RECURSIVE LeafShiftLoop(_, _, _)
LeafShiftLoop(buf, i, lo) ==
    IF i < lo THEN buf
    ELSE LeafShiftLoop(
             CopyBytes(buf, leaf_node_cell(i), buf, leaf_node_cell(i - 1),
                       LEAF_NODE_CELL_SIZE),
             i - 1, lo)

\* A faulty leaf_node_insert_into: the shift loop stops one cell early, and
\* the cell at cell_num is overwritten without having been moved.
leaf_node_insert_into_short(t1, page, page_num, cell_num, key, value, num_cells) ==
    IF num_cells >= LEAF_NODE_MAX_CELLS
    THEN leaf_node_split_and_insert(t1, page_num, cell_num, value.id, value)
    ELSE SetBuf(t1, page_num,
             serialize_row(
                 set_leaf_node_key(
                     set_leaf_node_num_cells(
                         IF cell_num < num_cells
                         THEN LeafShiftLoop(page, num_cells, cell_num + 2)
                         ELSE page,
                         num_cells + 1),
                     cell_num, key),
                 leaf_node_value(cell_num), value))

leaf_node_insert_into(t1, page, page_num, cell_num, key, value, num_cells) ==
    IF num_cells >= LEAF_NODE_MAX_CELLS
    THEN leaf_node_split_and_insert(t1, page_num, cell_num, value.id, value)
    ELSE SetBuf(t1, page_num,
             serialize_row(
                 set_leaf_node_key(
                     set_leaf_node_num_cells(
                         IF cell_num < num_cells
                         THEN LeafShiftLoop(page, num_cells, cell_num + 1)
                         ELSE page,
                         num_cells + 1),
                     cell_num, key),
                 leaf_node_value(cell_num), value))
\* (leaf_node_insert_on_unlinked: a faulty one that clears the leaf's
\* next leaf.)
leaf_node_insert_on_unlinked(t1, page, page_num, cell_num, key, value) ==
    leaf_node_insert_into(t1, set_leaf_node_next_leaf(page, 0), page_num, cell_num, key,
                          value, leaf_node_num_cells(page))
leaf_node_insert_on(t1, page, page_num, cell_num, key, value) ==
    leaf_node_insert_into(t1, page, page_num, cell_num, key, value,
                          leaf_node_num_cells(page))
leaf_node_insert_got(t1, page_num, cell_num, key, value) ==
    leaf_node_insert_on(t1, Buf(t1, page_num), page_num, cell_num, key, value)
leaf_node_insert(tb, page_num, cell_num, key, value) ==
    leaf_node_insert_got(get_page(tb, page_num), page_num, cell_num, key, value)

(***************************************************************************)
(* Statements (main.rs 934-1019).  An insert command is the record of its  *)
(* tokens: ntok the number of space-separated tokens, id the number the    *)
(* second token parses to, username and email the third and fourth.        *)
(***************************************************************************)
\* What prepare_insert ends with when the second token is no i32:
\* splits[1].trim().parse().unwrap() panics.
ParsePanic == "panic: unwrap of a parse error"

\* A faulty prepare_insert: strings of exactly the field size are rejected.
prepare_insert_strict(cmd) ==
    IF cmd.ntok < 4 THEN "PREPARE_SYNTAX_ERROR"
    ELSE IF ~cmd.parses THEN ParsePanic
    ELSE IF cmd.id < 0 THEN "PREPARE_NEGATIVE_ID"
    ELSE IF Len(cmd.username) >= USERNAME_SIZE THEN "PREPARE_STRING_TOO_LONG"
    ELSE IF Len(cmd.email) >= EMAIL_SIZE THEN "PREPARE_STRING_TOO_LONG"
    ELSE "PREPARE_SUCCESS"

prepare_insert(cmd) ==
    IF cmd.ntok < 4 THEN "PREPARE_SYNTAX_ERROR"
    ELSE IF ~cmd.parses THEN ParsePanic
    ELSE IF cmd.id < 0 THEN "PREPARE_NEGATIVE_ID"
    ELSE IF Len(cmd.username) > USERNAME_SIZE THEN "PREPARE_STRING_TOO_LONG"
    ELSE IF Len(cmd.email) > EMAIL_SIZE THEN "PREPARE_STRING_TOO_LONG"
    ELSE "PREPARE_SUCCESS"

row_to_insert(cmd) == [id |-> cmd.id, username |-> cmd.username, email |-> cmd.email]

\* execute_insert, last stage: the result of the insert into the leaf.
execute_inserted(t2) ==
    [tb |-> t2, result |-> IF t2.fatal # "" THEN "FATAL" ELSE "EXECUTE_SUCCESS"]

\* ... the stage with the cursor (page_num, cell_num) that find returned.
execute_insert_at(t1, page, page_num, cell_num, row) ==
    IF cell_num < leaf_node_num_cells(page) /\ leaf_node_key(page, cell_num) = row.id
    THEN [tb |-> t1, result |-> "EXECUTE_DUPLICATE_KEY"]
    ELSE execute_inserted(leaf_node_insert(t1, page_num, cell_num, row.id, row))
execute_insert_on(t1, page_num, cell_num, row) ==
    execute_insert_at(t1, Buf(t1, page_num), page_num, cell_num, row)
execute_insert_found(f, row) ==
    IF f.tb.fatal # "" THEN [tb |-> f.tb, result |-> "FATAL"]
    ELSE execute_insert_on(get_page(f.tb, f.page_num), f.page_num, f.cell_num, row)

\* execute_insert: the pager afterwards and the result.
execute_insert(tb, row) == execute_insert_found(find(tb, row.id), row)

\* The cursor loop of execute_select from the cursor (page_num, cell_num):
\* cursor_value, then advance, until end_of_table.  A leaf met twice means
\* the loop never ends.  (select_advance_past: a faulty advance that goes
\* to the next leaf one cell late.)
RECURSIVE SelectLoop(_, _, _, _, _)
select_next_leaf(t1, next_page_num, out, visited) ==
    IF next_page_num = 0 THEN [tb |-> t1, rows |-> out]
    ELSE IF next_page_num \in visited
    THEN [tb |-> Fatal(t1, "select never ends"), rows |-> out]
    ELSE SelectLoop(t1, next_page_num, 0, out, visited \cup {next_page_num})
select_advance_past(t1, page, page_num, cell_num, out, visited) ==
    IF cell_num + 1 > leaf_node_num_cells(page)
    THEN select_next_leaf(t1, get_leaf_node_next_leaf(page), out, visited)
    ELSE SelectLoop(t1, page_num, cell_num + 1, out, visited)
select_advance(t1, page, page_num, cell_num, out, visited) ==
    IF cell_num + 1 >= leaf_node_num_cells(page)
    THEN select_next_leaf(t1, get_leaf_node_next_leaf(page), out, visited)
    ELSE SelectLoop(t1, page_num, cell_num + 1, out, visited)
select_value(t1, page, page_num, cell_num, rows, visited) ==
    select_advance(t1, page, page_num, cell_num,
                   Append(rows, row_mut_slot(page, cell_num)), visited)
select_on(t1, page_num, cell_num, rows, visited) ==
    IF t1.fatal # "" THEN [tb |-> t1, rows |-> rows]
    ELSE select_value(t1, Buf(t1, page_num), page_num, cell_num, rows, visited)
SelectLoop(tb, page_num, cell_num, rows, visited) ==
    select_on(get_page_view(tb, page_num), page_num, cell_num, rows, visited)

\* execute_select: Cursor::table_start, then the loop.
select_from(l) ==
    IF l.tb.fatal # "" THEN [tb |-> l.tb, rows |-> << >>]
    ELSE IF leaf_node_num_cells(Buf(l.tb, l.page_num)) = 0
         THEN [tb |-> l.tb, rows |-> << >>]
         ELSE SelectLoop(l.tb, l.page_num, 0, << >>, {l.page_num})
execute_select(tb) == select_from(get_leftmost_leaf_page_num(tb, root_page_num))

(***************************************************************************)
(* db_close (main.rs 928-932) and pager_flush (443-453).                   *)
(***************************************************************************)
\* pager_flush of page_num onto the file f: a resident page is written
\* whole at page_num * PAGE_SIZE; a write past the end extends the file,
\* the gap reading as zeros.  (pager_flush_inplace: a faulty one that
\* writes no page past the end of the file.)
pager_flush_inplace(f, pgs, page_num) ==
    IF page_num \in DOMAIN pgs /\ page_num < Len(f)
    THEN [i \in 1..Len(f) |-> IF i = page_num + 1 THEN pgs[page_num] ELSE f[i]]
    ELSE f
pager_flush(f, pgs, page_num) ==
    IF page_num \in DOMAIN pgs
    THEN [i \in 1..(IF page_num + 1 > Len(f) THEN page_num + 1 ELSE Len(f)) |->
             IF i = page_num + 1 THEN pgs[page_num]
             ELSE IF i <= Len(f) THEN f[i] ELSE PageNew]
    ELSE f

\* for i in i..n-1: pager_flush(i).
RECURSIVE FlushLoop(_, _, _, _)
FlushLoop(f, pgs, i, n) ==
    IF i >= n THEN f ELSE FlushLoop(pager_flush(f, pgs, i), pgs, i + 1, n)

\* A faulty db_close: the last page is not flushed.
db_close_short(f, pgs, n) == FlushLoop(f, pgs, 0, n - 1)

db_close(f, pgs, n) == FlushLoop(f, pgs, 0, n)

(***************************************************************************)
(* The statements the model's user types.                                  *)
(*   The keys come as two ascending runs, the low run 1, 2, ... and the    *)
(*   high run HighBase+2, HighBase+4, ...; an insert statement inserts the *)
(*   next key of either run, or the late key (a key between two keys of    *)
(*   the high run, and the last key to be inserted), or inserts again a    *)
(*   key of AgainKeys, or is one of the statements prepare_insert is to    *)
(*   reject.                                                               *)
(***************************************************************************)
MaxLow == 14
MaxHigh == 15
HighBase == 100
MaxFile == 35
MaxPagerKeys == 2
MaxPagerPages == 4
MaxInput == 14
MaxInputHigh == 2

Digit(d) == 48 + (d % 10)
Repeat(b, n) == [i \in 1..n |-> b]

\* Key i of the high run, and the late key.
HighKey(i) == HighBase + 2 * i
LateKey == HighKey(LEAF_NODE_LEFT_SPLIT_COUNT) + 1

\* The strings of the row of key k.  The second key of the high run, the
\* long key, has strings of exactly USERNAME_SIZE and EMAIL_SIZE bytes.
LongKey == HighKey(2)
NameOf(k) == IF k = LongKey THEN Repeat(120, USERNAME_SIZE)
             ELSE <<117, Digit(k \div 10), Digit(k)>>
MailOf(k) == IF k = LongKey THEN Repeat(121, EMAIL_SIZE)
             ELSE <<109, 64, Digit(k \div 10), Digit(k)>>
InsertCmd(k) ==
    [ntok |-> 4, parses |-> TRUE, id |-> k, username |-> NameOf(k), email |-> MailOf(k)]

StoredIds == {r.id : r \in BagToSet(okrows)}

\* The next key of the low run while it has fewer than maxlow keys, and of
\* the high run while it has fewer than maxhigh keys; none after the late key.
NextKeys(maxlow, maxhigh) ==
    IF LateKey \in StoredIds THEN {}
    ELSE {k \in {1 + Cardinality(StoredIds \cap (1..HighBase))} : k <= maxlow}
         \cup {HighKey(i) : i \in {j \in {1 + Cardinality(StoredIds \ (1..HighBase))} :
                                     j <= maxhigh}}

\* The keys that are inserted again: the first key of the low run, the
\* long key, and the key of the high run below the late key.
AgainKeys == {1, LongKey, LateKey - 1}

RejectedCmds ==
    { [ntok |-> 4, parses |-> TRUE, id |-> -1, username |-> <<97>>, email |-> <<98>>],
      [ntok |-> 4, parses |-> TRUE, id |-> 50, username |-> Repeat(97, USERNAME_SIZE + 1),
       email |-> <<98>>],
      [ntok |-> 4, parses |-> TRUE, id |-> 50, username |-> <<97>>,
       email |-> Repeat(98, EMAIL_SIZE + 1)] }

\* The malformed insert statements: one of too few tokens ("insert 50 a"),
\* and one whose second token is no number ("insert x a b"; id is then the
\* number the model keeps in its place).
MalformedCmds ==
    { [ntok |-> 3, parses |-> TRUE, id |-> 50, username |-> <<97>>, email |-> << >>],
      [ntok |-> 4, parses |-> FALSE, id |-> 0, username |-> <<97>>, email |-> <<98>>] }

\* The insert statements of key k with an empty string: "insert k  m@.."
\* has an empty third token, and "insert k u..  x" an empty fourth token
\* before a fifth.
EmptyKey == 2
EmptyCmds(k) ==
    { [InsertCmd(k) EXCEPT !.username = << >>],
      [InsertCmd(k) EXCEPT !.email = << >>, !.ntok = 5] }

\* The insert statement of the first key of the low run with a username of
\* USERNAME_SIZE bytes: in the root leaf its bytes lie where the cells of
\* an internal node are.
LongFirstCmd == [InsertCmd(1) EXCEPT !.username = Repeat(120, USERNAME_SIZE)]

\* What `last` keeps of a command.
Shape(cmd) ==
    [negative |-> cmd.parses /\ cmd.id < 0, ulen |-> Len(cmd.username),
     elen |-> Len(cmd.email), ntok |-> cmd.ntok, parses |-> cmd.parses]
NoShape == [negative |-> FALSE, ulen |-> 0, elen |-> 0, ntok |-> 0, parses |-> TRUE]
Last(op, stored, shape, result, rows) ==
    [op |-> op, stored |-> stored, shape |-> shape, result |-> result, rows |-> rows]

(***************************************************************************)
(* The process.                                                            *)
(***************************************************************************)
\* The pager of the running process; past is what this build does with the
\* memory past the slot vector.
TableWith(past) == [pages |-> pages, num_pages |-> num_pages, fatal |-> "", past |-> past]
Table == TableWith("crash")

\* What Pager::new ends with when the file is no whole number of pages:
\* process::exit(0x0100).
CorruptFile == "exit: db file is not a whole number of pages"

ExitCodeOf(why) ==
    IF why = "exit: need to implement splitting internal node" THEN 16
    ELSE IF why = "panic: page number out of bounds" THEN 101
    ELSE IF why = ParsePanic THEN 101
    ELSE IF why = CorruptFile THEN 256
    ELSE 134

Init ==
    /\ file = << >>
    /\ running = FALSE
    /\ pages = << >>
    /\ num_pages = 0
    /\ root_page_num = 0
    /\ last = Last("none", FALSE, NoShape, "", << >>)
    /\ exit_code = 0
    /\ okrows = EmptyBag
    /\ saved = EmptyBag
    /\ at_close = << >>

\* main up to the first prompt: db_open = pager_open + Table::new.
pager_root(t1) == SetBuf(t1, 0, set_node_root(initialize_leaf_node(Buf(t1, 0)), TRUE))
pager_opened(tb) == IF tb.num_pages = 0 THEN pager_root(get_page(tb, 0)) ELSE tb
pager_open == pager_opened([pages |-> << >>, num_pages |-> num_pages_file, fatal |-> ""])

Opened(tb) ==
    /\ pages' = tb.pages
    /\ num_pages' = tb.num_pages

\* The process dies of `why` in the middle of a statement: nothing is flushed.
Dies(op, stored, shape, why) ==
    /\ running' = FALSE
    /\ pages' = << >>
    /\ num_pages' = 0
    /\ exit_code' = ExitCodeOf(why)
    /\ okrows' = saved
    /\ last' = Last(op, stored, shape, why, << >>)
    /\ UNCHANGED <<file, root_page_num, saved, at_close>>

\* main up to the first prompt.  Pager::new ends the process when the
\* file's length is no multiple of PAGE_SIZE.
Open ==
    /\ ~running
    /\ IF FileTorn
       THEN Dies("open", FALSE, NoShape, CorruptFile)
       ELSE /\ running' = TRUE
            /\ Opened(pager_open)
            /\ root_page_num' = 0
            /\ okrows' = saved
            /\ last' = Last("open", FALSE, NoShape, "", << >>)
            /\ UNCHANGED <<file, exit_code, saved, at_close>>

\* One insert statement: prepare_statement, then execute_statement.
\* (Executed_through: a faulty one that flushes the pages after the
\* statement.)
Executed_through(cmd, e) ==
    IF e.tb.fatal # ""
    THEN Dies("insert", cmd.id \in StoredIds, Shape(cmd), e.tb.fatal)
    ELSE /\ pages' = e.tb.pages
         /\ num_pages' = e.tb.num_pages
         /\ okrows' = IF e.result = "EXECUTE_SUCCESS"
                      THEN okrows (+) SetToBag({row_to_insert(cmd)})
                      ELSE okrows
         /\ last' = Last("insert", cmd.id \in StoredIds, Shape(cmd), e.result, << >>)
         /\ file' = db_close(file, e.tb.pages, e.tb.num_pages)
         /\ UNCHANGED <<running, root_page_num, exit_code, saved, at_close>>
Executed(cmd, e) ==
    IF e.tb.fatal # ""
    THEN Dies("insert", cmd.id \in StoredIds, Shape(cmd), e.tb.fatal)
    ELSE /\ pages' = e.tb.pages
         /\ num_pages' = e.tb.num_pages
         /\ okrows' = IF e.result = "EXECUTE_SUCCESS"
                      THEN okrows (+) SetToBag({row_to_insert(cmd)})
                      ELSE okrows
         /\ last' = Last("insert", cmd.id \in StoredIds, Shape(cmd), e.result, << >>)
         /\ UNCHANGED <<file, running, root_page_num, exit_code, saved, at_close>>
Prepared(cmd, prep) ==
    IF prep = ParsePanic THEN Dies("insert", FALSE, Shape(cmd), ParsePanic)
    ELSE IF prep # "PREPARE_SUCCESS"
    THEN /\ last' = Last("insert", FALSE, Shape(cmd), prep, << >>)
         /\ UNCHANGED <<file, running, pages, num_pages, root_page_num, exit_code,
                        okrows, saved, at_close>>
    ELSE Executed(cmd, execute_insert(Table, row_to_insert(cmd)))
Statement(cmd) == Prepared(cmd, prepare_insert(cmd))

\* insert of the next key of a run.
InsertNext ==
    /\ running
    /\ \E k \in NextKeys(MaxLow, MaxHigh) : Statement(InsertCmd(k))

\* insert of the late key.
InsertLate ==
    /\ running
    /\ LateKey \notin StoredIds
    /\ Statement(InsertCmd(LateKey))

\* insert of a key that is stored already.
InsertAgain ==
    /\ running
    /\ \E k \in AgainKeys \cap StoredIds : Statement(InsertCmd(k))

\* insert of the next key of the high run, for the sessions on a file.
InsertFile ==
    /\ running
    /\ \E k \in NextKeys(0, MaxFile) : Statement(InsertCmd(k))

\* insert of the next key, for the statements on a small table.
InsertInput ==
    /\ running
    /\ \E k \in NextKeys(MaxInput, MaxInputHigh) : Statement(InsertCmd(k))

\* An insert statement that prepare_insert is to reject.
InsertRejected ==
    /\ running
    /\ \E cmd \in RejectedCmds : Statement(cmd)

\* An insert statement that is malformed.
InsertMalformed ==
    /\ running
    /\ \E cmd \in MalformedCmds : Statement(cmd)

\* Something else than the program cuts the closed file or appends to it,
\* and its length is no longer a multiple of PAGE_SIZE.
Tear ==
    /\ ~running
    /\ ~FileTorn
    /\ file' = Append(file, TornPage)
    /\ last' = Last("tear", FALSE, NoShape, "", << >>)
    /\ UNCHANGED <<running, pages, num_pages, root_page_num, exit_code, okrows, saved,
                   at_close>>

\* insert of the next key, for the sessions with requests to the pager:
\* the statements of a session come before its requests.
InsertPager ==
    /\ running
    /\ last.op \in {"open", "insert"}
    /\ \E k \in NextKeys(0, MaxPagerKeys) : Statement(InsertCmd(k))

\* insert of a row with an empty string.
InsertEmpty ==
    /\ running
    /\ EmptyKey \in NextKeys(MaxInput, MaxInputHigh)
    /\ \E cmd \in EmptyCmds(EmptyKey) : Statement(cmd)

\* insert of the first key with the long username.
InsertLongFirst ==
    /\ running
    /\ 1 \in NextKeys(MaxInput, MaxInputHigh)
    /\ Statement(LongFirstCmd)

\* The pager has answered a request with tb.
Served(op, tb) ==
    IF tb.fatal # ""
    THEN Dies(op, FALSE, NoShape, tb.fatal)
    ELSE /\ pages' = tb.pages
         /\ num_pages' = tb.num_pages
         /\ last' = Last(op, FALSE, NoShape, "", << >>)
         /\ UNCHANGED <<file, running, root_page_num, exit_code, okrows, saved, at_close>>

\* The page numbers asked for: those up to num_pages, and those at the end
\* of the slot vector.
RequestPages ==
    (0..num_pages) \cup {TABLE_MAX_PAGES - 1, TABLE_MAX_PAGES, TABLE_MAX_PAGES + 1}

\* A request to the pager in the read flavor, get_page_view ...
View ==
    /\ running
    /\ num_pages < MaxPagerPages
    /\ \E p \in RequestPages, past \in PastOutcomes :
           Served("view", get_page_view(TableWith(past), p))

\* ... and in the read-write flavor, get_page.
GetPage ==
    /\ running
    /\ num_pages < MaxPagerPages
    /\ \E p \in RequestPages, past \in PastOutcomes :
           Served("get", get_page(TableWith(past), p))

Selected(e) ==
    IF e.tb.fatal # ""
    THEN Dies("select", FALSE, NoShape, e.tb.fatal)
    ELSE /\ pages' = e.tb.pages
         /\ num_pages' = e.tb.num_pages
         /\ last' = Last("select", FALSE, NoShape, "EXECUTE_SUCCESS", e.rows)
         /\ UNCHANGED <<file, running, root_page_num, exit_code, okrows, saved, at_close>>
Select ==
    /\ running
    /\ Selected(execute_select(Table))

\* .exit: db_close, then process::exit(0x0100).
Exit ==
    /\ running
    /\ file' = db_close(file, pages, num_pages)
    /\ running' = FALSE
    /\ pages' = << >>
    /\ num_pages' = 0
    /\ exit_code' = 256
    /\ saved' = okrows
    /\ at_close' = execute_select(Table).rows
    /\ last' = Last("exit", FALSE, NoShape, "", << >>)
    /\ UNCHANGED <<root_page_num, okrows>>

\* The process is killed from outside.
Kill ==
    /\ running
    /\ running' = FALSE
    /\ pages' = << >>
    /\ num_pages' = 0
    /\ exit_code' = 137
    /\ okrows' = saved
    /\ last' = Last("kill", FALSE, NoShape, "", << >>)
    /\ UNCHANGED <<file, root_page_num, saved, at_close>>

\* Sessions of inserts into a fresh table.
Next == Open \/ InsertNext \/ InsertLate \/ InsertAgain
Spec == Init /\ [][Next]_vars

\* Sessions on one file: inserts, selects, .exit, kill and reopen.
NextFile == Open \/ InsertFile \/ Select \/ Exit \/ Kill
SpecFile == Init /\ [][NextFile]_vars

\* Sessions on one file with the statements that are input errors, and
\* the ways the process ends by itself.
NextErrors == Open \/ InsertFile \/ InsertRejected \/ InsertMalformed \/ Exit \/ Tear
SpecErrors == Init /\ [][NextErrors]_vars

\* Sessions of inserts followed by requests to the pager.
NextPager == Open \/ InsertPager \/ View \/ GetPage \/ Exit
SpecPager == Init /\ [][NextPager]_vars

\* Statements that are accepted and rejected, on a small table.
NextInput ==
    \/ Open \/ InsertInput \/ InsertAgain \/ InsertRejected \/ InsertEmpty
    \/ InsertLongFirst \/ Select
SpecInput == Init /\ [][NextInput]_vars

(***************************************************************************)
(* The claims.                                                             *)
(***************************************************************************)
\* The rows select prints on the table as it is, and whether it gets through.
ScanRows == execute_select(Table).rows
ScanDone == execute_select(Table).tb.fatal = ""

\* The ids of rows in strictly ascending order.
Ascending(rows) == \A i \in 1..(Len(rows) - 1) : rows[i].id < rows[i + 1].id

\* All successful inserts so far were of distinct ids.
DistinctIds == \A r \in BagToSet(okrows) : CopiesIn(r, okrows) = 1
                                            /\ \A q \in BagToSet(okrows) : q.id = r.id => q = r

\* C1: after inserts of distinct ids into a fresh table, in any order, select
\* yields the stored rows in strictly ascending id order.
C1_ScanAscending == running /\ DistinctIds => ScanDone /\ Ascending(ScanRows)

\* What inserting key k does to the table as it is, and the rows select
\* prints after it.
Again(k) == execute_insert(Table, row_to_insert(InsertCmd(k)))
ScanAfter(k) == execute_select(Again(k).tb).rows

\* The number of rows with id k.
CountOf(k, rows) == Cardinality({i \in 1..Len(rows) : rows[i].id = k})

\* C2: in every reachable state, inserting a row whose id is stored already
\* returns EXECUTE_DUPLICATE_KEY and changes no page, and select still
\* yields exactly one row with that id.
C2_DuplicateRejected ==
    running => \A k \in AgainKeys \cap StoredIds :
                   /\ Again(k).result = "EXECUTE_DUPLICATE_KEY"
                   /\ Again(k).tb.pages = pages
                   /\ CountOf(k, ScanAfter(k)) = 1

\* The cursor find returns is on the cell that holds k.
HoldsKey(f, k) ==
    /\ f.tb.fatal = ""
    /\ f.cell_num < leaf_node_num_cells(Buf(f.tb, f.page_num))
    /\ leaf_node_key(Buf(f.tb, f.page_num), f.cell_num) = k

\* The keys find is asked for.
ProbeKeys == AgainKeys \cup {LateKey}

\* C3: in any state reached by inserts, find(k) is the cell that holds k
\* when k is stored, and otherwise a position at which inserting k keeps
\* the keys in ascending order.
C3_FindPosition ==
    running => \A k \in ProbeKeys :
                   IF k \in StoredIds THEN HoldsKey(find(Table, k), k)
                   ELSE Ascending(ScanRows) => Ascending(ScanAfter(k))

\* The rows as a bag.
RowBag(rows) ==
    [r \in {rows[i] : i \in 1..Len(rows)} |->
         Cardinality({i \in 1..Len(rows) : rows[i] = r})]

\* C4: every insert that returns EXECUTE_SUCCESS adds exactly one row and
\* removes none: in every state select yields the successfully inserted
\* rows, each as often as it was inserted, and no other row.
C4_ScanIsInserted == running => ScanDone /\ RowBag(ScanRows) = okrows

\* Inserts have succeeded and split leaves, and the last one was rejected as
\* a duplicate.
C4_Witness ==
    /\ running
    /\ BagCardinality(okrows) >= 2 * LEAF_NODE_MAX_CELLS
    /\ last.result = "EXECUTE_DUPLICATE_KEY"
    /\ Len(ScanRows) = BagCardinality(okrows)

\* C5: a select after reopening the file, with no insert since, yields the
\* same sequence of rows as a select just before the last .exit.
C5_RoundTrip == running /\ last.op = "select" /\ okrows = saved => last.rows = at_close

\* A table of several leaves was closed, reopened and scanned.
C5_Witness ==
    /\ running
    /\ exit_code = 256
    /\ last.op = "select"
    /\ okrows = saved
    /\ Len(last.rows) > LEAF_NODE_MAX_CELLS
    /\ last.rows = at_close

\* The root is a leaf that is full.
RootFullLeaf ==
    /\ running
    /\ 0 \in DOMAIN pages
    /\ is_leaf_node(pages[0])
    /\ leaf_node_num_cells(pages[0]) = LEAF_NODE_MAX_CELLS

\* root is an internal node of one key over the two leaves left and right.
OverTwoLeaves(root, left, right) ==
    /\ get_node_type(root) = NODE_INTERNAL
    /\ get_internal_node_num_keys(root) = 1
    /\ is_leaf_node(left) /\ is_leaf_node(right)
    /\ get_internal_node_key(root, 0) = get_node_max_key(left)
    /\ leaf_node_num_cells(left) = LEAF_NODE_LEFT_SPLIT_COUNT
    /\ leaf_node_num_cells(right) = LEAF_NODE_RIGHT_SPLIT_COUNT
    /\ leaf_node_num_cells(left) + leaf_node_num_cells(right) = LEAF_NODE_MAX_CELLS + 1
    /\ get_leaf_node_next_leaf(left) = get_internal_node_right_child(root)
    /\ get_leaf_node_next_leaf(right) = 0

\* The table is the root over exactly two leaves.
RootOfTwo ==
    /\ running
    /\ num_pages = 3
    /\ DOMAIN pages = 0..2
    /\ {get_internal_node_child(pages[0], 0), get_internal_node_right_child(pages[0])} = {1, 2}
    /\ OverTwoLeaves(pages[0], pages[get_internal_node_child(pages[0], 0)],
                     pages[get_internal_node_right_child(pages[0])])

\* C6: when the root is a full leaf and a new key is inserted at any
\* position, afterwards the root is an internal node with one key, the
\* maximum key of its left child, over exactly two leaves of
\* LEAF_NODE_LEFT_SPLIT_COUNT and LEAF_NODE_RIGHT_SPLIT_COUNT cells, the
\* left leaf's next leaf the right leaf and the right leaf's next leaf 0.
C6_RootSplit ==
    [][RootFullLeaf /\ last'.op = "insert" /\ last'.result = "EXECUTE_SUCCESS"
       => RootOfTwo']_vars

\* The root has split on an insert, with the first key of the low run the
\* only key below the high run.
C6_Witness ==
    /\ RootOfTwo
    /\ last.op = "insert" /\ last.result = "EXECUTE_SUCCESS"
    /\ BagCardinality(okrows) = LEAF_NODE_MAX_CELLS + 1
    /\ StoredIds \cap (1..HighBase) = {1}

\* Page p as it is now: the resident buffer, or else what the file holds.
PageNow(p) ==
    IF p \in DOMAIN pages THEN pages[p]
    ELSE IF p < Len(file) THEN file[p + 1] ELSE PageNew

\* C7: after any sequence of open, insert, select and .exit, root_page_num
\* is 0 and exactly one page has is_root set, page 0, in the table and in
\* the file.
C7_OneRoot ==
    /\ root_page_num = 0
    /\ running => /\ num_pages > 0
                  /\ \A p \in 0..(num_pages - 1) : is_node_root(PageNow(p)) <=> p = 0
    /\ \A i \in 1..Len(file) : is_node_root(file[i]) <=> i = 1

\* A table whose root was promoted has been closed, reopened and scanned.
C7_Witness ==
    /\ running
    /\ exit_code = 256
    /\ last.op = "select"
    /\ num_pages >= 3
    /\ get_node_type(PageNow(0)) = NODE_INTERNAL
    /\ is_node_root(PageNow(0))

\* Inserting key k needs a split of an internal node: the leaf find(k)
\* arrives at is full and the root, its parent, holds
\* INTERNAL_NODE_MAX_CELLS keys.
LeafFullAt(f) ==
    /\ f.tb.fatal = ""
    /\ leaf_node_num_cells(Buf(f.tb, f.page_num)) >= LEAF_NODE_MAX_CELLS
NeedsInternalSplit(k) ==
    /\ running
    /\ num_pages > 0
    /\ get_node_type(PageNow(0)) = NODE_INTERNAL
    /\ get_internal_node_num_keys(PageNow(0)) >= INTERNAL_NODE_MAX_CELLS
    /\ LeafFullAt(find(Table, k))

\* C8: an insert that needs a split of an internal node returns, and its
\* result is EXECUTE_TABLE_FULL.
C8_TableFull ==
    [][(\E k \in NextKeys(0, MaxFile) : NeedsInternalSplit(k)) /\ last'.op = "insert"
       => running' /\ last'.result = "EXECUTE_TABLE_FULL"]_vars

\* The row with the long key.
LongRow == row_to_insert(InsertCmd(LongKey))

\* C9: a row whose username is exactly USERNAME_SIZE bytes and whose email
\* is exactly EMAIL_SIZE bytes, none of them zero, is returned byte for byte
\* by select, also after .exit and reopen, and every other row is returned
\* as it was inserted.
C9_LongRow ==
    running /\ last.op = "select" /\ LongKey \in StoredIds
        => /\ Len(LongRow.username) = USERNAME_SIZE
           /\ Len(LongRow.email) = EMAIL_SIZE
           /\ CountOf(LongKey, last.rows) = 1
           /\ \E i \in 1..Len(last.rows) : last.rows[i] = LongRow
           /\ RowBag(last.rows) = okrows

\* The long row was stored between two other rows, the table closed,
\* reopened and scanned.
C9_Witness ==
    /\ running
    /\ exit_code = 256
    /\ last.op = "select"
    /\ okrows = saved
    /\ Len(last.rows) >= 3
    /\ last.rows[2] = LongRow

\* The table and the file are as they were.
Untouched == pages' = pages /\ num_pages' = num_pages /\ file' = file

\* C10: an insert with a negative id is rejected with PREPARE_NEGATIVE_ID,
\* one with a username of more than USERNAME_SIZE bytes or an email of more
\* than EMAIL_SIZE bytes with PREPARE_STRING_TOO_LONG, and neither changes a
\* page, num_pages or the file; strings of exactly USERNAME_SIZE and
\* EMAIL_SIZE bytes are accepted.
C10_Rejected ==
    [][last'.op = "insert" =>
          /\ last'.shape.negative
                 => last'.result = "PREPARE_NEGATIVE_ID" /\ Untouched
          /\ ~last'.shape.negative
               /\ (last'.shape.ulen > USERNAME_SIZE \/ last'.shape.elen > EMAIL_SIZE)
                 => last'.result = "PREPARE_STRING_TOO_LONG" /\ Untouched
          /\ ~last'.shape.negative
               /\ last'.shape.ulen <= USERNAME_SIZE /\ last'.shape.elen <= EMAIL_SIZE
                 => last'.result \in {"EXECUTE_SUCCESS", "EXECUTE_DUPLICATE_KEY"}]_vars

\* An email of more than EMAIL_SIZE bytes was rejected after the row with
\* strings of exactly the field sizes had been stored.
C10_Witness ==
    /\ running
    /\ last.op = "insert"
    /\ last.result = "PREPARE_STRING_TOO_LONG"
    /\ last.shape.elen > EMAIL_SIZE
    /\ LongKey \in StoredIds

\* The statement was an input error: too few fields, an id that is no
\* number, a negative id, or a string longer than its field.
InputError(shape) ==
    \/ shape.ntok < 4
    \/ ~shape.parses
    \/ shape.negative
    \/ shape.ulen > USERNAME_SIZE
    \/ shape.elen > EMAIL_SIZE

\* C11: every insert statement that is an input error (too few fields, an
\* id field that is no number, a negative id, a field too long) is reported
\* as a prepare error, changes no page, num_pages or the file, and leaves
\* the session running for the next statement.
C11_Recoverable ==
    [][last'.op = "insert" /\ InputError(last'.shape)
          => /\ running'
             /\ Untouched
             /\ last'.result \in
                    {"PREPARE_SYNTAX_ERROR", "PREPARE_NEGATIVE_ID", "PREPARE_STRING_TOO_LONG"}]_vars

\* The process has ended by itself: through .exit, or in a fatal error.
EndedByItself == ~running /\ last.op \in {"exit", "open", "insert", "select"}

\* C12: the exit status the caller observes, the requested code modulo 256,
\* is 0 when the process ended through .exit, and is not 0 when it ended in
\* a fatal error (corrupt file length, page number out of bounds, the
\* internal node split that is not implemented).
C12_ExitStatus ==
    EndedByItself => (exit_code % 256 = 0 <=> last.op = "exit")

\* The largest key stored in the leaf on page p; -1 when the page is no
\* leaf with a cell.
MaxKeyUnder(p) ==
    IF is_leaf_node(PageNow(p)) /\ leaf_node_num_cells(PageNow(p)) > 0
    THEN get_node_max_key(PageNow(p))
    ELSE -1

\* The pages that are internal nodes.
InternalPages ==
    {p \in 0..(num_pages - 1) : get_node_type(PageNow(p)) = NODE_INTERNAL}

\* The keys of the internal node are strictly ascending, each is the
\* largest key under its child, and the right child holds a larger key.
InternalKeysOk(node) ==
    /\ get_internal_node_num_keys(node) >= 1
    /\ \A i \in 0..(get_internal_node_num_keys(node) - 2) :
           get_internal_node_key(node, i) < get_internal_node_key(node, i + 1)
    /\ \A i \in 0..(get_internal_node_num_keys(node) - 1) :
           get_internal_node_key(node, i) = MaxKeyUnder(get_internal_node_cell(node, i))
    /\ MaxKeyUnder(get_internal_node_right_child(node))
           > get_internal_node_key(node, get_internal_node_num_keys(node) - 1)

\* The last statement was an insert that succeeded.
Inserted == running /\ last.op = "insert" /\ last.result = "EXECUTE_SUCCESS"

\* C13: after every successful insert, in any insertion order, every
\* internal node has strictly ascending keys, key[i] is the largest key
\* stored under child[i], and the largest key under right_child is greater
\* than the last key.
C13_InternalKeys ==
    Inserted => \A p \in InternalPages : InternalKeysOk(PageNow(p))

\* The leaf that was split into itself and the new leaf on page new: the
\* one whose next leaf is now the new leaf.
SplitLeaf(after, new) ==
    CHOOSE p \in DOMAIN after :
        p # new /\ is_leaf_node(after[p]) /\ get_leaf_node_next_leaf(after[p]) = new

\* The parent (the root) as leaf_node_split_and_insert hands it to
\* internal_node_insert: with the key of the split leaf updated.
ParentAtCall(before, after, new) ==
    update_internal_node_key(before[0],
                             get_node_max_key(before[SplitLeaf(after, new)]),
                             get_node_max_key(after[SplitLeaf(after, new)]))

\* A leaf below the root was split by the step, and the new leaf's max key
\* is not greater than the right child's.
InsertedBelowRight ==
    /\ running /\ Inserted'
    /\ num_pages >= 3 /\ num_pages' = num_pages + 1
    /\ get_node_type(pages[0]) = NODE_INTERNAL
    /\ get_node_max_key(pages'[num_pages])
           <= get_node_max_key(pages'[get_internal_node_right_child(pages[0])])

\* Cell i of an internal node: its child and its key.
CellPair(node, i) == <<get_internal_node_cell(node, i), get_internal_node_key(node, i)>>

\* result is parent with the pair (child, key) inserted at index among its
\* old_num_keys cells.
InternalShifted(parent, result, index, old_num_keys, child, key) ==
    /\ \A i \in index..(old_num_keys - 1) : CellPair(result, i + 1) = CellPair(parent, i)
    /\ CellPair(result, index) = <<child, key>>
    /\ \A i \in 0..(index - 1) : CellPair(result, i) = CellPair(parent, i)
    /\ get_internal_node_right_child(result) = get_internal_node_right_child(parent)

\* C14: when internal_node_insert adds a child whose max key is not greater
\* than the right child's max key, the parent's former cells at positions
\* index..old_num_keys-1 are afterwards at index+1..old_num_keys, cell index
\* holds (child_page_num, child_max_key), and the cells below index and
\* right_child are unchanged.
C14_InternalShift ==
    [][InsertedBelowRight
          => InternalShifted(
                 ParentAtCall(pages, pages', num_pages), pages'[0],
                 internal_node_find_child(ParentAtCall(pages, pages', num_pages),
                                          get_node_max_key(pages'[num_pages])),
                 get_internal_node_num_keys(pages[0]), num_pages,
                 get_node_max_key(pages'[num_pages]))]_vars

\* The pages the internal node names: child[0..num_keys) and right_child.
ChildrenOf(node) ==
    {get_internal_node_cell(node, i) : i \in 0..(get_internal_node_num_keys(node) - 1)}
        \cup {get_internal_node_right_child(node)}

\* Page p's parent pointer names an internal node that lists p.
ListedByParent(p) ==
    /\ get_node_parent(PageNow(p)) \in InternalPages
    /\ p \in ChildrenOf(PageNow(get_node_parent(PageNow(p))))

\* C15: after every successful insert, the parent_page_num of every node
\* that is not the root names an internal node that lists the node as one
\* of child[0..num_keys) or as right_child.
C15_ParentLists ==
    Inserted => \A p \in 0..(num_pages - 1) : is_node_root(PageNow(p)) \/ ListedByParent(p)

\* The cells of a leaf in their order: each key with its row.
LeafCells(buf) ==
    [i \in 1..leaf_node_num_cells(buf) |->
         <<leaf_node_key(buf, i - 1), row_mut_slot(buf, i - 1)>>]

\* The cells with cell c put before the first cell of a greater key.
WithCell(cells, c, n) == SubSeq(cells, 1, n) \o <<c>> \o SubSeq(cells, n + 1, Len(cells))
Merged(cells, c) ==
    WithCell(cells, c, Cardinality({i \in 1..Len(cells) : cells[i][1] < c[1]}))

\* The step was a successful insert that split a leaf.
SplitStep == running /\ Inserted' /\ num_pages' > num_pages

\* The leaf the step split as it was before: the root when it was the only
\* page, and else the page that now holds the left half.
FormerLeaf == IF num_pages = 1 THEN pages[0] ELSE pages[SplitLeaf(pages', num_pages)]

\* The row the step stored, with its key.
NewCell(r) == <<r.id, r>>
StoredCell == NewCell(CHOOSE r \in BagToSet(okrows') : CopiesIn(r, okrows') > CopiesIn(r, okrows))

\* C16: a split of a full leaf for a new key leaves LEAF_NODE_LEFT_SPLIT_COUNT
\* cells in the old leaf and LEAF_NODE_RIGHT_SPLIT_COUNT in the new leaf, and
\* the old leaf's cells followed by the new leaf's cells are the former
\* cells with the new cell among them in ascending key order, each key
\* with its own row.
C16_SplitCells ==
    [][SplitStep
          => /\ leaf_node_num_cells(FormerLeaf) = LEAF_NODE_MAX_CELLS
             /\ leaf_node_num_cells(pages'[SplitLeaf(pages', num_pages)])
                    = LEAF_NODE_LEFT_SPLIT_COUNT
             /\ leaf_node_num_cells(pages'[num_pages]) = LEAF_NODE_RIGHT_SPLIT_COUNT
             /\ LeafCells(pages'[SplitLeaf(pages', num_pages)]) \o LeafCells(pages'[num_pages])
                    = Merged(LeafCells(FormerLeaf), StoredCell)]_vars

\* The last insert split the root, a full leaf of keys of both runs; the
\* left half holds three keys of the low run below keys of the high run.
C16_Witness ==
    /\ Inserted
    /\ num_pages = 3
    /\ BagCardinality(okrows) = LEAF_NODE_MAX_CELLS + 1
    /\ Cardinality(StoredIds \cap (1..HighBase)) = 3
    /\ leaf_node_key(PageNow(2), 2) = 3
    /\ leaf_node_key(PageNow(2), 3) = HighKey(1)

\* The pages that are leaves, and the keys of the leaf on page p.
LeafPages == {p \in 0..(num_pages - 1) : is_leaf_node(PageNow(p))}
LeafKeys(p) ==
    {leaf_node_key(PageNow(p), i) : i \in 0..(leaf_node_num_cells(PageNow(p)) - 1)}

\* The keys of the leaf are strictly ascending.
LeafAscending(buf) ==
    \A i \in 0..(leaf_node_num_cells(buf) - 2) : leaf_node_key(buf, i) < leaf_node_key(buf, i + 1)

\* C17: after every successful insert, in any insertion order, the keys of
\* every leaf are strictly ascending, no key is stored in two leaves, and
\* no leaf holds more than LEAF_NODE_MAX_CELLS cells.
C17_LeafKeys ==
    Inserted => /\ \A p \in LeafPages :
                       /\ LeafAscending(PageNow(p))
                       /\ leaf_node_num_cells(PageNow(p)) <= LEAF_NODE_MAX_CELLS
                /\ \A p, q \in LeafPages : p # q => LeafKeys(p) \cap LeafKeys(q) = {}

\* The pages met by following next_leaf from page p until it is 0; -1 marks
\* a page met twice or a page that is no leaf.
RECURSIVE ChainFrom(_, _)
ChainFrom(p, seen) ==
    IF p \in seen \/ p \notin LeafPages THEN <<-1>>
    ELSE IF get_leaf_node_next_leaf(PageNow(p)) = 0 THEN <<p>>
    ELSE <<p>> \o ChainFrom(get_leaf_node_next_leaf(PageNow(p)), seen \cup {p})

\* The chain from the leftmost leaf.
LeafChain == ChainFrom(get_leftmost_leaf_page_num(Table, root_page_num).page_num, {})

\* The chain is acyclic, ends with next_leaf = 0, and visits every leaf;
\* page 0 is a leaf only when it is the only page.
ChainOk ==
    /\ \A i \in 1..Len(LeafChain) : LeafChain[i] # -1
    /\ {LeafChain[i] : i \in 1..Len(LeafChain)} = LeafPages
    /\ num_pages > 1 => 0 \notin LeafPages

\* The page that holds the left half after the step split a leaf: page 2
\* when the root was split, and else the old leaf's own page.
OldLeafPage ==
    IF num_pages = 1 THEN 2
    ELSE CHOOSE p \in 1..(num_pages - 1) : is_leaf_node(pages[p]) /\ pages'[p] # pages[p]

\* The old leaf as it was before the step.
OldLeaf == IF num_pages = 1 THEN pages[0] ELSE pages[OldLeafPage]

\* C18: in every reachable state the next_leaf pointers form one acyclic
\* chain that starts at the leftmost leaf, visits every leaf once and ends
\* with next_leaf = 0, and page 0 is the successor of no leaf; a split sets
\* the new leaf's next to the old leaf's former next, and the old leaf's
\* next to the new leaf.
C18_LeafChain ==
    /\ [](running => ChainOk)
    /\ [][SplitStep
            => /\ get_leaf_node_next_leaf(pages'[num_pages]) = get_leaf_node_next_leaf(OldLeaf)
               /\ get_leaf_node_next_leaf(pages'[OldLeafPage]) = num_pages]_vars

\* Leaves other than the rightmost have split: the chain is over four
\* leaves or more and its second leaf is not the first page that was added.
C18_Witness ==
    /\ Inserted
    /\ Len(LeafChain) >= 4
    /\ LeafChain[2] # 1
    /\ ChainOk

\* C19: when a leaf split must add a key to a parent that already holds
\* INTERNAL_NODE_MAX_CELLS keys, the insert either returns
\* EXECUTE_TABLE_FULL with no page changed, or ends the process with a
\* status that is not 0 and with the table's pages dropped; in both cases
\* the file is unchanged.
C19_InternalFull ==
    [][(\E k \in NextKeys(0, MaxFile) : NeedsInternalSplit(k)) /\ last'.op = "insert"
          => /\ file' = file
             /\ \/ running' /\ last'.result = "EXECUTE_TABLE_FULL" /\ Untouched
                \/ /\ ~running'
                   /\ exit_code' % 256 # 0
                   /\ pages' = << >> /\ num_pages' = 0
                   /\ okrows' = saved]_vars

\* A session on a file of several pages has ended in the insert that needs
\* the split of an internal node.
C19_Witness ==
    /\ ~running
    /\ last.op = "insert"
    /\ last.result = "exit: need to implement splitting internal node"
    /\ exit_code = 16
    /\ Len(file) >= 3

C21_Flushed ==
    [][running /\ last'.op = "exit"
          => /\ Len(file') = num_pages
             /\ \A p \in DOMAIN pages : p < Len(file') /\ file'[p + 1] = pages[p]
             /\ ~FileTorn']_vars

\* A table of four pages or more, with rows in three leaves, has been
\* closed by .exit.
C21_Witness ==
    /\ ~running
    /\ last.op = "exit"
    /\ Len(file) >= 4
    /\ Len(at_close) > LEAF_NODE_MAX_CELLS + LEAF_NODE_RIGHT_SPLIT_COUNT

\* Page p as the file holds it: a read past the end reads no byte.
FilePage(p) == IF p < Len(file) THEN file[p + 1] ELSE PageNew

\* The step was a request to the pager that was served.
RequestStep == running /\ running' /\ last'.op \in {"view", "get"}

\* C22: in both flavors of the pager's get, a request for a vacant slot
\* page_num < num_pages installs the page read from the file and leaves
\* num_pages as it is, and a request for a vacant slot page_num = num_pages
\* installs a zeroed page and adds one to num_pages; the installed page's
\* number is below num_pages afterwards.
C22_GetInstalls ==
    [][RequestStep
          => \A p \in (DOMAIN pages' \ DOMAIN pages) \cap (0..num_pages) :
                 /\ p < num_pages => pages'[p] = FilePage(p) /\ num_pages' = num_pages
                 /\ p = num_pages => pages'[p] = PageNew /\ num_pages' = num_pages + 1
                 /\ p < num_pages']_vars

\* C23: every page the pager has served without ending the process is in
\* one of the TABLE_MAX_PAGES slots 0..TABLE_MAX_PAGES-1 of its table: a
\* request for a page number outside the table ends the process before a
\* slot is read or written.
C23_SlotsInTable ==
    running => DOMAIN pages \subseteq 0..(TABLE_MAX_PAGES - 1)

\* The rows the cells of the leaves read as.
StoredRows ==
    UNION {{row_mut_slot(PageNow(p), i) : i \in 0..(leaf_node_num_cells(PageNow(p)) - 1)} :
           p \in LeafPages}

\* C24: every row with a username of 0 to USERNAME_SIZE bytes and an email
\* of 0 to EMAIL_SIZE bytes, none of them zero, that was written into a
\* leaf cell reads back from a cell with the same id, username and email,
\* empty strings included.
C24_RowReadBack ==
    running => \A r \in BagToSet(okrows) : r \in StoredRows

\* The pages a node names: the children of an internal node, the next
\* leaf of a leaf, and the parent of either.
NamedBy(node) ==
    {get_node_parent(node)}
        \cup (IF is_leaf_node(node) THEN {get_leaf_node_next_leaf(node)}
              ELSE ChildrenOf(node))
Referenced == UNION {NamedBy(PageNow(p)) : p \in 0..(num_pages - 1)}

\* The pages the step has allocated.
NewPages == DOMAIN pages' \ DOMAIN pages

\* C25: an insert never makes num_pages smaller, and every page it
\* allocates is a page that was not resident, whose number was at or above
\* num_pages and was named by no node; the two pages a root split
\* allocates are distinct, and they are the new root's two children.
C25_NoReuse ==
    [][running /\ running' /\ last'.op = "insert"
          => /\ num_pages' >= num_pages
             /\ num_pages' - num_pages = Cardinality(NewPages)
             /\ \A p \in NewPages : p >= num_pages /\ p \notin Referenced
             /\ DOMAIN pages \subseteq DOMAIN pages'
             /\ RootFullLeaf /\ Inserted'
                    => /\ Cardinality(NewPages) = 2
                       /\ ChildrenOf(pages'[0]) = NewPages]_vars

\* Pages have been allocated by a root split and by two later splits.
C25_Witness ==
    /\ Inserted
    /\ num_pages = 5
    /\ DOMAIN pages = 0..4
    /\ ChildrenOf(PageNow(0)) = 1..4

\* C26: while the process runs a resident page stays resident, and a
\* request for a resident page, in either flavor, leaves the page as it is
\* in memory: it is not read from the file again.
C26_StaysResident ==
    [][running /\ running'
          => /\ DOMAIN pages \subseteq DOMAIN pages'
             /\ last'.op \in {"view", "get"} => \A p \in DOMAIN pages : pages'[p] = pages[p]]_vars

\* A request was served while a resident page differed from what the file
\* holds for it: the page had been changed by an insert of this session.
C26_Witness ==
    /\ running
    /\ last.op \in {"view", "get"}
    /\ \E p \in DOMAIN pages : p < Len(file) /\ pages[p] # file[p + 1]

\* The keys find is asked for: the least key, keys of the low run, keys at
\* the start of the high run, the keys around the late key, and a key above
\* every key stored.
FindKeys ==
    {0, 1, LEAF_NODE_LEFT_SPLIT_COUNT, HighBase + 1, HighKey(1), LateKey - 1, LateKey,
     HighKey(MaxHigh) + 1}

\* find(k) has returned, on a leaf that is the root or a child of the root
\* and not the root again.
FindEnds(f) ==
    /\ f.tb.fatal = ""
    /\ f.page_num \in LeafPages
    /\ f.page_num # root_page_num
           => /\ get_node_type(PageNow(root_page_num)) = NODE_INTERNAL
              /\ f.page_num \in ChildrenOf(PageNow(root_page_num))

RECURSIVE CellsFrom(_, _)
CellsFrom(chain, i) ==
    IF i > Len(chain) THEN 0
    ELSE leaf_node_num_cells(PageNow(chain[i])) + CellsFrom(chain, i + 1)

\* C28: in every reachable state a scan terminates: it yields no row when
\* the table is empty, and otherwise one row for each stored row, each read
\* from a cell below num_cells of a leaf of the chain, none of which is
\* empty.
C28_ScanTerminates ==
    running
        => /\ ScanDone
           /\ Len(ScanRows) = BagCardinality(okrows)
           /\ Len(ScanRows) = CellsFrom(LeafChain, 1)
           /\ okrows # EmptyBag
                  => \A i \in 1..Len(LeafChain) :
                         LeafChain[i] \in LeafPages
                             /\ leaf_node_num_cells(PageNow(LeafChain[i])) > 0

\* A table of three leaves or more was reopened and scanned.
C28_Witness ==
    /\ running
    /\ last.op = "select"
    /\ exit_code = 256
    /\ Len(LeafChain) >= 3
    /\ Len(last.rows) = CellsFrom(LeafChain, 1)

\* C29: for every internal node and every key, the page find descends
\* into (child[index] when the key at index = find_child(key) is at least
\* the target, and else right_child) is child[find_child(key)] with
\* position num_keys standing for right_child, also when index is num_keys
\* and the key slot there holds stale bytes.
C29_Routing ==
    running
        => \A p \in InternalPages : \A k \in FindKeys :
               internal_node_find_next(PageNow(p), k)
                   = get_internal_node_child(PageNow(p),
                                             internal_node_find_child(PageNow(p), k))

\* The root is an internal node whose key slot at num_keys holds stale
\* bytes that read as a key above the target, and find_child of the target
\* is num_keys.
C29_Witness ==
    /\ running
    /\ get_node_type(PageNow(0)) = NODE_INTERNAL
    /\ internal_node_find_child(PageNow(0), HighKey(MaxHigh) + 1)
           = get_internal_node_num_keys(PageNow(0))
    /\ get_internal_node_key(PageNow(0), get_internal_node_num_keys(PageNow(0)))
           >= HighKey(MaxHigh) + 1

\* The fields of a node's header other than num_cells.
HeaderOf(node) ==
    <<get_node_type(node), is_node_root(node), get_node_parent(node),
      get_leaf_node_next_leaf(node)>>

\* The step has put cell c at cell_num into the leaf on page_num, which had
\* room, and has changed nothing else.
LeafOnly(page_num, cell_num, c) ==
    leaf_node_num_cells(pages[page_num]) < LEAF_NODE_MAX_CELLS
        => /\ num_pages' = num_pages
           /\ DOMAIN pages' = DOMAIN pages
           /\ \A p \in DOMAIN pages \ {page_num} : pages'[p] = pages[p]
           /\ HeaderOf(pages'[page_num]) = HeaderOf(pages[page_num])
           /\ LeafCells(pages'[page_num]) = WithCell(LeafCells(pages[page_num]), c, cell_num)

\* The same, with the cursor f find gives for the key of c.
LeafOnlyAt(f, c) == LeafOnly(f.page_num, f.cell_num, c)
LeafOnlyFor(c) == LeafOnlyAt(find(Table, c[1]), c)

\* C30: an insert into a leaf with fewer than LEAF_NODE_MAX_CELLS cells
\* changes that leaf only: its cells from cell_num on are one slot to the
\* right, the new cell is at cell_num and num_cells is one more; its next
\* and parent pointers, every other page (the parent with its keys and
\* children among them) and num_pages are as before.
C30_LeafOnly ==
    [][running /\ Inserted' => LeafOnlyFor(StoredCell)]_vars

\* After a split, inserts have put keys into a leaf that had room and is
\* not the last leaf of the chain: the leftmost leaf holds keys of the low
\* run and of the high run, more of them than the split left in it.
C30_Witness ==
    /\ Inserted
    /\ num_pages >= 3
    /\ Len(LeafChain) >= 2
    /\ leaf_node_num_cells(PageNow(LeafChain[1])) > LEAF_NODE_LEFT_SPLIT_COUNT
    /\ leaf_node_key(PageNow(LeafChain[1]), 0) = 1
    /\ get_node_max_key(PageNow(LeafChain[1])) > HighBase

====
